---- MODULE Spec2Model ----
(***************************************************************************)
(* A model of the dudu-proxy admission control plane: the sliding-window   *)
(* circuit breaker (internal/manager/breaker.go), the IP ban manager       *)
(* (internal/manager/ipban.go), the rate limiter and the two proxy         *)
(* frontends (internal/proxy/http.go, internal/proxy/socks5.go).           *)
(*                                                                         *)
(* Time is a natural number of clock ticks; time.Now() reads `now`.        *)
(***************************************************************************)
EXTENDS Integers, Sequences, FiniteSets, TLC

VARIABLES
    now,      \* the wall clock read by time.Now()
    cb,       \* the CircuitBreaker object
    call,     \* the goroutine executing CircuitBreaker.Call
    obs,      \* the last breaker operation, its result and the breaker before it
    m,        \* the IPBanManager object
    file,     \* the content of the persistence file data/ipban.json
    saves,    \* the number of spawned `go m.saveToFile()` goroutines still to run
    streak,   \* per IP: the RecordFailure calls since the last reset of that IP
    last,     \* the last ban-manager operation and the IP it was called with
    rl,       \* the RateLimitMiddleware object
    mw,       \* the auth, ban and breaker middlewares' configuration
    conns,    \* the connection handler goroutines of both frontends
    life,     \* the goroutines of Run, of the sweeper and of saveToFile
    tasks,    \* the goroutines inside Allow and the copy goroutines of transfer
    accepted, \* the number of connections accepted so far
    calls     \* per IP: the calls of Allow made on the middleware itself

breakerVars == <<cb, call, obs>>
banVars == <<m, file, saves, streak, last>>
proxyVars == <<rl, mw, conns, accepted, calls, life, tasks>>
vars == <<now, cb, call, obs, m, file, saves, streak, last, rl, mw, conns, accepted,
         calls, life, tasks>>

(***************************************************************************)
(* Bounds of the model.                                                    *)
(***************************************************************************)
MaxTime == 4
MaxWindow == 4
MaxSaves == 1
MaxConns == 2
MaxAccepts == 3
MaxSeqAccepts == 4
MaxLifeAccepts == 2
MaxCalls == 5
MaxAllowCalls == 3

(***************************************************************************)
(* internal/manager/breaker.go                                             *)
(***************************************************************************)
StateClosed == "closed"
StateOpen == "open"
StateHalfOpen == "half-open"

halfOpenMaxRequests == 3

\* The parameters NewCircuitBreaker is constructed with:
\* failureThresholdPercent, windowSize, minRequests, breakDuration.
BreakerConfigs ==
    { [failureThreshold |-> 50,  windowSize |-> 3, minRequests |-> 3, breakDuration |-> 2],
      [failureThreshold |-> 50,  windowSize |-> 2, minRequests |-> 2, breakDuration |-> 3],
      [failureThreshold |-> 100, windowSize |-> 3, minRequests |-> 2, breakDuration |-> 1],
      [failureThreshold |-> 25,  windowSize |-> 3, minRequests |-> 2, breakDuration |-> 1] }

NewCircuitBreaker(cfg, t) ==
    [ state                |-> StateClosed,
      failureThreshold     |-> cfg.failureThreshold,
      windowSize           |-> cfg.windowSize,
      minRequests          |-> cfg.minRequests,
      breakDuration        |-> cfg.breakDuration,
      requests             |-> << >>,
      lastStateChange      |-> t,
      consecutiveSuccesses |-> 0,
      halfOpenMaxRequests  |-> halfOpenMaxRequests ]

requestRecord(t, ok) == [timestamp |-> t, success |-> ok]

\* time.Since(c.lastStateChange) >= c.breakDuration
BreakElapsed(c, t) == t - c.lastStateChange >= c.breakDuration

CircuitBreaker_IsOpen_StrictElapsed(c, t) ==
    IF c.state = StateOpen
    THEN (IF t - c.lastStateChange > c.breakDuration THEN FALSE ELSE TRUE)
    ELSE FALSE

CircuitBreaker_IsOpen(c, t) ==
    IF c.state = StateOpen
    THEN (IF BreakElapsed(c, t) THEN FALSE ELSE TRUE)
    ELSE FALSE

CircuitBreaker_GetState(c, t) ==
    IF c.state = StateOpen /\ BreakElapsed(c, t)
    THEN StateHalfOpen
    ELSE c.state

\* cleanup keeps the records with timestamp.After(now - windowSize)
cleanup_KeepsCutoff(c, t) ==
    LET cutoff == t - c.windowSize
        After(r) == r.timestamp >= cutoff
    IN  [c EXCEPT !.requests = SelectSeq(@, After)]

cleanup(c, t) ==
    LET cutoff == t - c.windowSize
        After(r) == r.timestamp > cutoff
    IN  [c EXCEPT !.requests = SelectSeq(@, After)]

RECURSIVE CountFailures(_)
CountFailures(reqs) ==
    IF reqs = << >> THEN 0
    ELSE (IF Head(reqs).success THEN 0 ELSE 1) + CountFailures(Tail(reqs))

shouldOpen_StrictThreshold(c) ==
    IF c.state # StateClosed THEN FALSE
    ELSE IF Len(c.requests) < c.minRequests THEN FALSE
    ELSE CountFailures(c.requests) * 100 > c.failureThreshold * Len(c.requests)

\* failures*100.0/len >= failureThreshold, with len > 0, is the integer
\* comparison failures*100 >= failureThreshold*len
shouldOpen(c) ==
    IF c.state # StateClosed THEN FALSE
    ELSE IF Len(c.requests) < c.minRequests THEN FALSE
    ELSE CountFailures(c.requests) * 100 >= c.failureThreshold * Len(c.requests)

CircuitBreaker_RecordSuccess_ClearsOnClose(c, t) ==
    LET c1 == [c EXCEPT !.requests = Append(@, requestRecord(t, TRUE))]
        c2 == IF c1.state = StateHalfOpen
              THEN LET c3 == [c1 EXCEPT !.consecutiveSuccesses = @ + 1]
                   IN  IF c3.consecutiveSuccesses >= c3.halfOpenMaxRequests
                       THEN [c3 EXCEPT !.state = StateClosed,
                                       !.lastStateChange = t,
                                       !.consecutiveSuccesses = 0,
                                       !.requests = << >>]
                       ELSE c3
              ELSE c1
    IN  cleanup(c2, t)

CircuitBreaker_RecordSuccess(c, t) ==
    LET c1 == [c EXCEPT !.requests = Append(@, requestRecord(t, TRUE))]
        c2 == IF c1.state = StateHalfOpen
              THEN LET c3 == [c1 EXCEPT !.consecutiveSuccesses = @ + 1]
                   IN  IF c3.consecutiveSuccesses >= c3.halfOpenMaxRequests
                       THEN [c3 EXCEPT !.state = StateClosed,
                                       !.lastStateChange = t,
                                       !.consecutiveSuccesses = 0]
                       ELSE c3
              ELSE c1
    IN  cleanup(c2, t)

CircuitBreaker_RecordFailure(c, t) ==
    LET c1 == [c EXCEPT !.requests = Append(@, requestRecord(t, FALSE))]
    IN  IF c1.state = StateHalfOpen
        THEN cleanup([c1 EXCEPT !.state = StateOpen,
                                !.lastStateChange = t,
                                !.consecutiveSuccesses = 0], t)
        ELSE LET c2 == cleanup(c1, t)
             IN  IF shouldOpen(c2)
                 THEN [c2 EXCEPT !.state = StateOpen, !.lastStateChange = t]
                 ELSE c2

\* The goroutine of Call before its first call: where it stands, the state
\* GetState gave it, the error of fn, the value Call returned and the number
\* of times this call has invoked fn.
IdleCall == [pc |-> "idle", currentState |-> StateClosed, err |-> FALSE,
             ret |-> "", invoked |-> 0]

\* Where Call goes with the state GetState returned.
CallGate_HalfOpenRejected(s) ==
    IF s = StateOpen \/ s = StateHalfOpen THEN "idle"
    ELSE "fn"

CallGate(s) ==
    IF s = StateOpen THEN "idle"
    ELSE IF s = StateHalfOpen THEN "transition"
    ELSE "fn"

\* The locked section of Call that commits the half-open transition.
CircuitBreaker_CallTransition(c, t) ==
    IF c.state = StateOpen /\ BreakElapsed(c, t)
    THEN [c EXCEPT !.state = StateHalfOpen, !.lastStateChange = t]
    ELSE c

(***************************************************************************)
(* internal/manager/ipban.go                                               *)
(***************************************************************************)
IPs == {"10.0.0.1", "192.168.1.1"}

\* The zero time.Time, which precedes every clock reading.
ZeroTime == -1

\* The parameters NewIPBanManager is constructed with.
BanConfigs ==
    { [maxFailures |-> 3, banDuration |-> 2, whitelist |-> {"192.168.1.1"}],
      [maxFailures |-> 2, banDuration |-> 3, whitelist |-> {"192.168.1.1"}] }

BanRecord(ip, bannedAt, expiresAt, failCount) ==
    [ip |-> ip, bannedAt |-> bannedAt, expiresAt |-> expiresAt, failCount |-> failCount]

\* Go map operations: m[k] = v, delete(m, k), and m[k] with the zero default.
MapPut(f, k, v) == [x \in DOMAIN f \cup {k} |-> IF x = k THEN v ELSE f[x]]
MapDelete(f, k) == [x \in DOMAIN f \ {k} |-> f[x]]
MapGet(f, k) == IF k \in DOMAIN f THEN f[k] ELSE 0
EmptyMap == [x \in {} |-> 0]

\* loadFromFile: replay the records of the file, in order, into the maps.
RECURSIVE loadFromFile(_, _, _)
loadFromFile(mm, records, t) ==
    IF records = << >> THEN mm
    ELSE LET record == Head(records)
             m1 == IF record.expiresAt # ZeroTime /\ t < record.expiresAt
                   THEN [mm EXCEPT
                           !.bannedIPs = MapPut(@, record.ip, record.expiresAt),
                           !.bannedFailCount =
                               IF record.failCount > 0
                               THEN MapPut(@, record.ip, record.failCount)
                               ELSE @]
                   ELSE IF record.failCount > 0
                        THEN [mm EXCEPT !.failureCounts =
                                          MapPut(@, record.ip, record.failCount)]
                        ELSE mm
         IN  loadFromFile(m1, Tail(records), t)

NewIPBanManager(cfg, records, t) ==
    loadFromFile([ bannedIPs       |-> EmptyMap,
                   bannedFailCount |-> EmptyMap,
                   failureCounts   |-> EmptyMap,
                   maxFailures     |-> cfg.maxFailures,
                   banDuration     |-> cfg.banDuration,
                   whitelist       |-> cfg.whitelist ],
                 records, t)

IPBanManager_IsBanned_IgnoreWhitelist(mm, ip, t) ==
    IF ip \notin DOMAIN mm.bannedIPs THEN FALSE
    ELSE IF t > mm.bannedIPs[ip] THEN FALSE
    ELSE TRUE

IPBanManager_IsBanned_NoExpiry(mm, ip, t) ==
    IF ip \in mm.whitelist THEN FALSE
    ELSE IF ip \notin DOMAIN mm.bannedIPs THEN FALSE
    ELSE TRUE

\* time.Now().After(expiry) is t > expiry
IPBanManager_IsBanned(mm, ip, t) ==
    IF ip \in mm.whitelist THEN FALSE
    ELSE IF ip \notin DOMAIN mm.bannedIPs THEN FALSE
    ELSE IF t > mm.bannedIPs[ip] THEN FALSE
    ELSE TRUE

\* Whether this call of RecordFailure reaches the threshold and fires a ban.
FiresBan(mm, ip) ==
    /\ ip \notin mm.whitelist
    /\ MapGet(mm.failureCounts, ip) + 1 >= mm.maxFailures

IPBanManager_RecordFailure_BanAfterThreshold(mm, ip, t) ==
    IF ip \in mm.whitelist THEN mm
    ELSE LET count == MapGet(mm.failureCounts, ip) + 1
         IN  IF count > mm.maxFailures
             THEN [mm EXCEPT !.bannedFailCount = MapPut(@, ip, count),
                             !.bannedIPs = MapPut(@, ip, t + mm.banDuration),
                             !.failureCounts = MapDelete(@, ip)]
             ELSE [mm EXCEPT !.failureCounts = MapPut(@, ip, count)]

IPBanManager_RecordFailure(mm, ip, t) ==
    IF ip \in mm.whitelist THEN mm
    ELSE LET count == MapGet(mm.failureCounts, ip) + 1
         IN  IF count >= mm.maxFailures
             THEN [mm EXCEPT !.bannedFailCount = MapPut(@, ip, count),
                             !.bannedIPs = MapPut(@, ip, t + mm.banDuration),
                             !.failureCounts = MapDelete(@, ip)]
             ELSE [mm EXCEPT !.failureCounts = MapPut(@, ip, count)]

IPBanManager_RecordSuccess_KeepCount(mm, ip) == mm

IPBanManager_RecordSuccess(mm, ip) ==
    [mm EXCEPT !.failureCounts = MapDelete(@, ip)]

IPBanManager_UnbanIP_KeepFailures(mm, ip) ==
    [mm EXCEPT !.bannedIPs = MapDelete(@, ip),
               !.bannedFailCount = MapDelete(@, ip)]

IPBanManager_UnbanIP(mm, ip) ==
    [mm EXCEPT !.bannedIPs = MapDelete(@, ip),
               !.bannedFailCount = MapDelete(@, ip),
               !.failureCounts = MapDelete(@, ip)]

IPBanManager_GetFailureCount(mm, ip) == MapGet(mm.failureCounts, ip)

\* One pass of cleanupExpiredBans: delete the bans with now.After(expiry).
ExpiredBans(mm, t) == {ip \in DOMAIN mm.bannedIPs : t > mm.bannedIPs[ip]}

cleanupExpiredBans(mm, t) ==
    [mm EXCEPT !.bannedIPs = [ip \in DOMAIN @ \ ExpiredBans(mm, t) |-> @[ip]]]

\* saveToFile: the records of the non-expired bans (now.Before(expiry)) ...
SavedBans_CountFromFailureCounts(mm, t) ==
    { BanRecord(ip, mm.bannedIPs[ip] - mm.banDuration, mm.bannedIPs[ip],
                MapGet(mm.failureCounts, ip)) :
        ip \in {x \in DOMAIN mm.bannedIPs : t < mm.bannedIPs[x]} }

SavedBans(mm, t) ==
    { BanRecord(ip, mm.bannedIPs[ip] - mm.banDuration, mm.bannedIPs[ip],
                MapGet(mm.bannedFailCount, ip)) :
        ip \in {x \in DOMAIN mm.bannedIPs : t < mm.bannedIPs[x]} }

\* ... followed by the failure counts of the IPs that have no ban record.
SavedCounts_WithBannedIPs(mm, t) ==
    { BanRecord(ip, ZeroTime, ZeroTime, mm.failureCounts[ip]) :
        ip \in {x \in DOMAIN mm.failureCounts : mm.failureCounts[x] > 0} }

SavedCounts(mm, t) ==
    { BanRecord(ip, ZeroTime, ZeroTime, mm.failureCounts[ip]) :
        ip \in {x \in DOMAIN mm.failureCounts :
                  /\ \A r \in SavedBans(mm, t) : r.ip # x
                  /\ mm.failureCounts[x] > 0} }

\* The sequences that list the elements of a set, each once: the orders a
\* range over a Go map can produce.
Orderings(S) ==
    {seq \in [1..Cardinality(S) -> S] : \A i, j \in 1..Cardinality(S) :
                                            i # j => seq[i] # seq[j]}

saveToFile(mm, t) ==
    {bans \o counts : bans \in Orderings(SavedBans(mm, t)),
                      counts \in Orderings(SavedCounts(mm, t))}

\* The persistence files a manager may find at construction: no file, or a
\* file left by an earlier run (possibly under another configuration, or
\* edited by the operator).
BanFiles ==
    { << >>,
      <<BanRecord("10.0.0.1", 0, 2, 3)>>,
      <<BanRecord("10.0.0.1", 0, 0, 2)>>,
      <<BanRecord("10.0.0.1", ZeroTime, ZeroTime, 3)>>,
      <<BanRecord("192.168.1.1", 0, 2, 3)>> }

\* The RecordFailure calls made for an IP since its streak began (at
\* construction, at its last RecordSuccess or at its last UnbanIP): their
\* number n, or Untracked when the IP was not clean as the streak began; and
\* reset, whether the streak began with a RecordSuccess that cleared a count
\* of 1 .. maxFailures-1.
\* firedAt is the time of the call that completed maxFailures failures of
\* a tracked streak, as long as it is the last RecordFailure for the IP.
\* unbanned tells that the streak began with an UnbanIP.
Untracked == 0 - 1
Streak(n, reset) ==
    [n |-> n, reset |-> reset, firedAt |-> Untracked, unbanned |-> FALSE]

StreakAfterFailure(st, max, t) ==
    LET n == IF st.n # Untracked /\ st.n <= max THEN st.n + 1 ELSE st.n
    IN  [st EXCEPT !.n = n, !.firedAt = IF n = max THEN t ELSE Untracked]

\* An IP with no failure counted and no ban in force.
IsClean(mm, ip, t) ==
    /\ ip \notin DOMAIN mm.failureCounts
    /\ ip \notin DOMAIN mm.bannedIPs \/ t > mm.bannedIPs[ip]

\* What the last step did: the operation, its result, the breaker before it,
\* and the number of consecutive successes recorded since the breaker was
\* found in the (logical) half-open state.
Observe(op, ret, pre, probes) == [op |-> op, ret |-> ret, pre |-> pre, probes |-> probes]

\* A history variable records only in the specifications whose properties
\* read it; elsewhere it is switched off at Init and stays as it is.
Recorded(h, old) == IF old.op = "Off" THEN old ELSE h

ProbesAfterSuccess(c, t, probes) ==
    IF CircuitBreaker_GetState(c, t) = StateHalfOpen
    THEN (IF probes < halfOpenMaxRequests THEN probes + 1 ELSE probes)
    ELSE 0

(***************************************************************************)
(* internal/middleware: auth.go, ratelimit.go (rate limiter and ban        *)
(* middleware), breaker.go                                                 *)
(***************************************************************************)
NewAuthMiddleware(enabled, credentials) ==
    [enabled |-> enabled, credentials |-> credentials]

AuthMiddleware_Authenticate(a, username, password) ==
    IF ~a.enabled THEN TRUE
    ELSE IF username \notin DOMAIN a.credentials THEN FALSE
    ELSE a.credentials[username] = password

\* A rate.Limiter (golang.org/x/time/rate) with limit tokens per tick and
\* the given burst; it starts full.
NewLimiter(limit, burst) == [limit |-> limit, burst |-> burst, tokens |-> burst, last |-> 0]

\* The tokens the bucket holds at time t: refilled at `limit` per tick since
\* the last update, capped by the burst.
TokensAt(lim, t) ==
    LET refilled == lim.tokens + (t - lim.last) * lim.limit
    IN  IF refilled > lim.burst THEN lim.burst ELSE refilled

\* Limiter.Allow: whether a token is available at t, and the limiter after
\* taking it.
LimiterAllows(lim, t) == TokensAt(lim, t) >= 1

LimiterTake(lim, t) ==
    IF LimiterAllows(lim, t)
    THEN [lim EXCEPT !.tokens = TokensAt(lim, t) - 1, !.last = t]
    ELSE lim

NoLimiter == [limit |-> 0, burst |-> 0, tokens |-> 0, last |-> 0]

NewRateLimitMiddleware_BurstIsRate(enabled, globalRPS, perIPRPS) ==
    [ enabled       |-> enabled,
      hasGlobal     |-> enabled /\ globalRPS > 0,
      globalLimiter |-> IF enabled /\ globalRPS > 0
                        THEN NewLimiter(globalRPS, globalRPS)
                        ELSE NoLimiter,
      perIPLimiters |-> [x \in {} |-> NoLimiter],
      perIPLimit    |-> perIPRPS,
      perIPBurst    |-> perIPRPS ]

NewRateLimitMiddleware(enabled, globalRPS, perIPRPS) ==
    [ enabled       |-> enabled,
      hasGlobal     |-> enabled /\ globalRPS > 0,
      globalLimiter |-> IF enabled /\ globalRPS > 0
                        THEN NewLimiter(globalRPS, globalRPS * 2)
                        ELSE NoLimiter,
      perIPLimiters |-> [x \in {} |-> NoLimiter],
      perIPLimit    |-> perIPRPS,
      perIPBurst    |-> perIPRPS * 2 ]

\* getIPLimiter: the limiter of the IP, created on first use.
getIPLimiter(r, ip) ==
    IF ip \in DOMAIN r.perIPLimiters
    THEN r
    ELSE [r EXCEPT !.perIPLimiters = MapPut(@, ip, NewLimiter(r.perIPLimit, r.perIPBurst))]

\* Allow(ip): the result, the middleware afterwards, and the number of
\* tokens the call took out of the buckets.
RateLimitMiddleware_Allow_SharedBucket(r, ip, t) ==
    IF ~r.enabled THEN [ok |-> TRUE, rl |-> r, taken |-> 0]
    ELSE IF r.hasGlobal /\ ~LimiterAllows(r.globalLimiter, t)
    THEN [ok |-> FALSE, rl |-> r, taken |-> 0]
    ELSE LET r1 == IF r.hasGlobal
                   THEN [r EXCEPT !.globalLimiter = LimiterTake(@, t)]
                   ELSE r
             r2 == getIPLimiter(r1, ip)
             ok == LimiterAllows(r2.perIPLimiters[ip], t)
         IN  [ ok    |-> ok,
               rl    |-> [r2 EXCEPT !.perIPLimiters =
                             [x \in DOMAIN @ |-> LimiterTake(@[x], t)]],
               taken |-> (IF r.hasGlobal THEN 1 ELSE 0) + (IF ok THEN 1 ELSE 0) ]

RateLimitMiddleware_Allow_PerIPFirst(r, ip, t) ==
    IF ~r.enabled THEN [ok |-> TRUE, rl |-> r, taken |-> 0]
    ELSE LET r1 == getIPLimiter(r, ip)
             ok == LimiterAllows(r1.perIPLimiters[ip], t)
             r2 == [r1 EXCEPT !.perIPLimiters[ip] = LimiterTake(@, t)]
         IN  IF ~ok THEN [ok |-> FALSE, rl |-> r2, taken |-> 0]
             ELSE IF r.hasGlobal /\ ~LimiterAllows(r.globalLimiter, t)
             THEN [ok |-> FALSE, rl |-> r2, taken |-> 1]
             ELSE [ ok    |-> TRUE,
                    rl    |-> IF r.hasGlobal
                              THEN [r2 EXCEPT !.globalLimiter = LimiterTake(@, t)]
                              ELSE r2,
                    taken |-> 1 + (IF r.hasGlobal THEN 1 ELSE 0) ]

RateLimitMiddleware_Allow(r, ip, t) ==
    IF ~r.enabled THEN [ok |-> TRUE, rl |-> r, taken |-> 0]
    ELSE IF r.hasGlobal /\ ~LimiterAllows(r.globalLimiter, t)
    THEN [ok |-> FALSE, rl |-> r, taken |-> 0]
    ELSE LET r1 == IF r.hasGlobal
                   THEN [r EXCEPT !.globalLimiter = LimiterTake(@, t)]
                   ELSE r
             r2 == getIPLimiter(r1, ip)
             ok == LimiterAllows(r2.perIPLimiters[ip], t)
         IN  [ ok    |-> ok,
               rl    |-> [r2 EXCEPT !.perIPLimiters[ip] = LimiterTake(@, t)],
               taken |-> (IF r.hasGlobal THEN 1 ELSE 0) + (IF ok THEN 1 ELSE 0) ]

IPBanMiddleware_IsBlocked_NeverBlocks(w, mm, ip, t) == FALSE

IPBanMiddleware_IsBlocked(w, mm, ip, t) ==
    IF ~w.ipBanEnabled THEN FALSE ELSE IPBanManager_IsBanned(mm, ip, t)

IPBanMiddleware_RecordAuthFailure(w, mm, ip, t) ==
    IF ~w.ipBanEnabled THEN mm ELSE IPBanManager_RecordFailure(mm, ip, t)

IPBanMiddleware_RecordAuthSuccess(w, mm, ip) ==
    IF ~w.ipBanEnabled THEN mm ELSE IPBanManager_RecordSuccess(mm, ip)

CircuitBreakerMiddleware_IsOpen(w, c, t) ==
    IF ~w.breakerEnabled THEN FALSE ELSE CircuitBreaker_IsOpen(c, t)

CircuitBreakerMiddleware_RecordAuthFailure_Skipped(w, c, t) == c

CircuitBreakerMiddleware_RecordAuthFailure(w, c, t) ==
    IF ~w.breakerEnabled THEN c ELSE CircuitBreaker_RecordFailure(c, t)

CircuitBreakerMiddleware_RecordAuthSuccess(w, c, t) ==
    IF ~w.breakerEnabled THEN c ELSE CircuitBreaker_RecordSuccess(c, t)

(***************************************************************************)
(* Address texts, as the proxies build them and as net.Dial reads them.    *)
(* A text is the sequence of its characters.                               *)
(***************************************************************************)
Digits == <<"0", "1", "2", "3", "4", "5", "6", "7", "8", "9",
            "a", "b", "c", "d", "e", "f">>

\* strconv's rendering of a non-negative number in a base up to 16
RECURSIVE FormatUint(_, _)
FormatUint(n, base) ==
    IF n < base THEN <<Digits[n + 1]>>
    ELSE FormatUint(n \div base, base) \o <<Digits[(n % base) + 1]>>

\* strings.Index / strings.LastIndex of one character, 0 when it is absent
\* (positions count from 1).
Index(text, ch) ==
    IF \E i \in 1..Len(text) : text[i] = ch
    THEN CHOOSE i \in 1..Len(text) :
            text[i] = ch /\ \A j \in 1..(i - 1) : text[j] # ch
    ELSE 0

LastIndex(text, ch) ==
    IF \E i \in 1..Len(text) : text[i] = ch
    THEN CHOOSE i \in 1..Len(text) :
            text[i] = ch /\ \A j \in (i + 1)..Len(text) : text[j] # ch
    ELSE 0

Contains(text, ch) == Index(text, ch) # 0

\* net.IPv4(a, b, c, d).String()
IPv4String(b) ==
    FormatUint(b[1], 10) \o <<".">> \o FormatUint(b[2], 10) \o <<".">>
        \o FormatUint(b[3], 10) \o <<".">> \o FormatUint(b[4], 10)

\* net.IP.String() of a 16-byte address, given as its eight 16-bit groups:
\* an IPv4-mapped address prints dotted; otherwise the longest run of at
\* least two zero groups (the first of the longest) is written "::".
IsIPv4Mapped(g) ==
    /\ \A i \in 1..5 : g[i] = 0
    /\ g[6] = 65535

ZeroRun(g, i) ==
    IF g[i] # 0 THEN 0
    ELSE CHOOSE n \in 1..(9 - i) :
            /\ \A k \in i..(i + n - 1) : g[k] = 0
            /\ i + n = 9 \/ g[i + n] # 0

RunStart(g, i) == g[i] = 0 /\ (i = 1 \/ g[i - 1] # 0)

Elided(g) ==
    LET starts == {i \in 1..8 : RunStart(g, i) /\ ZeroRun(g, i) >= 2}
    IN  IF starts = {} THEN [from |-> 0, len |-> 0]
        ELSE LET e0 == CHOOSE i \in starts :
                          \A j \in starts :
                              \/ ZeroRun(g, j) < ZeroRun(g, i)
                              \/ ZeroRun(g, j) = ZeroRun(g, i) /\ i <= j
             IN  [from |-> e0, len |-> ZeroRun(g, e0)]

RECURSIVE GroupsString(_, _, _)
GroupsString(g, i, e) ==
    IF i > 8 THEN << >>
    ELSE IF i = e.from
         THEN <<":", ":">> \o GroupsString(g, i + e.len, e)
         ELSE (IF i > 1 /\ i # e.from + e.len THEN <<":">> ELSE << >>)
                  \o FormatUint(g[i], 16) \o GroupsString(g, i + 1, e)

IPString(g) ==
    IF IsIPv4Mapped(g)
    THEN IPv4String(<<g[7] \div 256, g[7] % 256, g[8] \div 256, g[8] % 256>>)
    ELSE GroupsString(g, 1, Elided(g))

\* fmt.Sprintf("%s:%d", host, port)
Sprintf_s_d(host, port) == host \o <<":">> \o FormatUint(port, 10)

\* net.JoinHostPort: a host that contains a colon is enclosed in brackets.
JoinHostPort(host, port) ==
    IF Contains(host, ":")
    THEN <<"[">> \o host \o <<"]", ":">> \o port
    ELSE host \o <<":">> \o port

Drop(text, n) == SubSeq(text, n + 1, Len(text))

\* net.SplitHostPort: the host and the port of "host:port" or "[host]:port",
\* or the error that address is given.
AddrError(why) == [err |-> why, host |-> << >>, port |-> << >>]

SplitHostPort(hostport) ==
    LET i == LastIndex(hostport, ":")
    IN  IF i = 0 THEN AddrError("missing port in address")
        ELSE IF hostport[1] = "["
        THEN LET end == Index(hostport, "]")
             IN  IF end = 0 THEN AddrError("missing ']' in address")
                 ELSE IF end = Len(hostport) THEN AddrError("missing port in address")
                 ELSE IF end + 1 # i
                 THEN (IF hostport[end + 1] = ":"
                       THEN AddrError("too many colons in address")
                       ELSE AddrError("missing port in address"))
                 ELSE IF Contains(Drop(hostport, 1), "[")
                 THEN AddrError("unexpected '[' in address")
                 ELSE IF Contains(Drop(hostport, end), "]")
                 THEN AddrError("unexpected ']' in address")
                 ELSE [err |-> "", host |-> SubSeq(hostport, 2, end - 1),
                       port |-> Drop(hostport, i)]
        ELSE IF Contains(SubSeq(hostport, 1, i - 1), ":")
        THEN AddrError("too many colons in address")
        ELSE IF Contains(hostport, "[") THEN AddrError("unexpected '[' in address")
        ELSE IF Contains(hostport, "]") THEN AddrError("unexpected ']' in address")
        ELSE [err |-> "", host |-> SubSeq(hostport, 1, i - 1),
              port |-> Drop(hostport, i)]

\* The address families a host of a dial address can be reached in: an IP
\* literal has its own family; a name resolves to any set of families.
IsIPv4Literal(host) ==
    /\ host # << >>
    /\ \A i \in 1..Len(host) : host[i] = "." \/ \E d \in 1..10 : host[i] = Digits[d]

Families(host) ==
    IF Contains(host, ":") THEN {{6}}
    ELSE IF IsIPv4Literal(host) THEN {{4}}
    ELSE {{}, {4}, {6}, {4, 6}}

\* The families a dial on the network may use.
NetworkFamilies(network) ==
    IF network = "tcp4" THEN {4}
    ELSE IF network = "tcp6" THEN {6}
    ELSE {4, 6}

\* net.DialTimeout(network, address, timeout): the connections it can return,
\* each by the family of the remote address, and 0 for an error.  The address
\* must split into host and port; a connection is to an address of the host
\* in a family of the network, and any attempt may fail.
DialTimeout(network, address) ==
    LET hp == SplitHostPort(address)
    IN  IF hp.err # "" THEN {0}
        ELSE {0} \cup UNION {fams \cap NetworkFamilies(network) : fams \in Families(hp.host)}

(***************************************************************************)
(* internal/proxy/http.go and internal/proxy/socks5.go                     *)
(***************************************************************************)
ClientIPs == {"10.0.0.1", "10.0.0.2"}

socks5Version == 5
authNone == 0
authPassword == 2
authNoAccept == 255
cmdConnect == 1
atypIPv4 == 1
atypDomain == 3
atypIPv6 == 4
repSuccess == 0
repServerFailure == 1
repHostUnreachable == 4
repCommandNotSupported == 7
repAddressNotSupported == 8

StatusServiceUnavailable == 503
StatusForbidden == 403
StatusTooManyRequests == 429
StatusProxyAuthRequired == 407
StatusBadGateway == 502
StatusOK == 200

\* The configurations the server is run with: the credential table, which
\* filters are enabled, and the parameters of the three managers.
ProxyConfigs ==
    { [ auth           |-> NewAuthMiddleware(TRUE, [u \in {"user1"} |-> "pass1"]),
        ipBanEnabled   |-> TRUE,
        breakerEnabled |-> TRUE,
        rateEnabled    |-> TRUE,
        globalRPS      |-> 2,
        perIPRPS       |-> 1,
        network        |-> "tcp4",
        ban            |-> [maxFailures |-> 2, banDuration |-> 2, whitelist |-> {}],
        breaker        |-> [failureThreshold |-> 50, windowSize |-> 3,
                            minRequests |-> 2, breakDuration |-> 1] ],
      [ auth           |-> NewAuthMiddleware(FALSE, [u \in {"user1"} |-> "pass1"]),
        ipBanEnabled   |-> TRUE,
        breakerEnabled |-> TRUE,
        rateEnabled    |-> TRUE,
        globalRPS      |-> 2,
        perIPRPS       |-> 1,
        network        |-> "tcp6",
        ban            |-> [maxFailures |-> 2, banDuration |-> 2, whitelist |-> {}],
        breaker        |-> [failureThreshold |-> 50, windowSize |-> 3,
                            minRequests |-> 2, breakDuration |-> 1] ] }

\* The responses the HTTP frontend writes.
sendError(statusCode) ==
    [status |-> statusCode, headers |-> {"Content-Type", "Content-Length"}]

sendProxyAuthRequired ==
    [status |-> StatusProxyAuthRequired,
     headers |-> {"Proxy-Authenticate: Basic realm=\"DuDu Proxy\"", "Content-Length"}]

ConnectionEstablished == [status |-> StatusOK, headers |-> {}]

\* The SOCKS5 reply: version, code, reserved, IPv4, zero address and port.
sendReply(rep) == <<socks5Version, rep, 0, 1, 0, 0, 0, 0, 0, 0>>

\* A Proxy-Authorization header as the client sends it: absent, or a scheme
\* followed by a payload that is valid base64 or not and that decodes to the
\* fields strings.SplitN(decoded, ":", 2) yields.
NoHeader == [present |-> FALSE, scheme |-> "", base64 |-> FALSE, fields |-> << >>]
Header(scheme, base64, fields) ==
    [present |-> TRUE, scheme |-> scheme, base64 |-> base64, fields |-> fields]

ProxyAuthHeaders ==
    { NoHeader,
      Header("Bearer ", TRUE, <<"user1", "pass1">>),
      Header("Basic ", FALSE, << >>),
      Header("Basic ", TRUE, <<"user1pass1">>),
      Header("Basic ", TRUE, <<"user1", "pass1">>),
      Header("Basic ", TRUE, <<"user1", "wrong">>) }

parseProxyAuth(h) ==
    IF ~h.present THEN [ok |-> FALSE, username |-> "", password |-> ""]
    ELSE IF h.scheme # "Basic " THEN [ok |-> FALSE, username |-> "", password |-> ""]
    ELSE IF ~h.base64 THEN [ok |-> FALSE, username |-> "", password |-> ""]
    ELSE IF Len(h.fields) # 2 THEN [ok |-> FALSE, username |-> "", password |-> ""]
    ELSE [ok |-> TRUE, username |-> h.fields[1], password |-> h.fields[2]]

HTTPAuthPasses_MissingHeaderPasses(a, h) ==
    LET parsed == parseProxyAuth(h)
    IN  ~parsed.ok \/ AuthMiddleware_Authenticate(a, parsed.username, parsed.password)

\* The negation of `!ok || !h.auth.Authenticate(username, password)`.
HTTPAuthPasses(a, h) ==
    LET parsed == parseProxyAuth(h)
    IN  ~(~parsed.ok \/ ~AuthMiddleware_Authenticate(a, parsed.username, parsed.password))

\* The username/password pairs of the RFC 1929 sub-negotiation.
Socks5Credentials == {<<"user1", "pass1">>, <<"user3", "pass3">>}

\* The method lists of the SOCKS5 greeting.
MethodLists == {<<authNone>>, <<authPassword>>, <<authNone, authPassword>>, <<1>>}

SelectMethod_NoneWhenOffered(authEnabled, methods) ==
    IF \E i \in 1..Len(methods) : methods[i] = authNone THEN authNone
    ELSE IF authEnabled /\ \E i \in 1..Len(methods) : methods[i] = authPassword
    THEN authPassword
    ELSE authNoAccept

SelectMethod_PasswordWhenOffered(authEnabled, methods) ==
    IF \E i \in 1..Len(methods) : methods[i] = authPassword THEN authPassword
    ELSE IF \E i \in 1..Len(methods) : methods[i] = authNone THEN authNone
    ELSE authNoAccept

SelectMethod(authEnabled, methods) ==
    LET wanted == IF authEnabled THEN authPassword ELSE authNone
    IN  IF \E i \in 1..Len(methods) : methods[i] = wanted THEN wanted ELSE authNoAccept

AfterCheck_RateBeforeBan(stage) ==
    CASE stage = "breaker" -> "rate"
      [] stage = "rate"    -> "ban"
      [] stage = "ban"     -> "handshake"

\* The stage a handler goes on to after a check has let the connection pass.
AfterCheck(stage) ==
    CASE stage = "breaker" -> "ban"
      [] stage = "ban"     -> "rate"
      [] stage = "rate"    -> "handshake"

Event(name, ret) == [ev |-> name, ret |-> ret]

\* A connection handler: its program counter, frontend and client IP, what
\* it has called with which result (trace), what it has written to the
\* client (sent), the credentials the client presented, the number of
\* rate-limit tokens it consumed, and the outcome of authentication; the
\* methods of the SOCKS5 greeting (offered), the address type, host and port
\* of the request, and the dial: its network, its address and the family of
\* the connection it returned (0 when it returned an error).
\* The calls of Allow made for each IP on the middleware itself: their
\* number, the time of the first, and the result of the last.
NoCalls == [ip \in ClientIPs |-> [n |-> 0, first |-> 0, ok |-> TRUE]]

NoDial == [network |-> "", address |-> << >>, remote |-> 0]

FreeConn ==
    [ pc |-> "free", proto |-> "", ip |-> "", trace |-> << >>, sent |-> << >>,
      creds |-> NoHeader, method |-> "", taken |-> 0, auth |-> "none",
      offered |-> << >>, atyp |-> 0, host |-> << >>, port |-> 0, dial |-> NoDial ]

NewConn(proto, ip) ==
    [FreeConn EXCEPT !.pc = "breaker", !.proto = proto, !.ip = ip]

Called(conn, name, ret) == [conn EXCEPT !.trace = Append(@, Event(name, ret))]
Close(conn) == [conn EXCEPT !.pc = "closed"]
Write(conn, msg) == [conn EXCEPT !.sent = Append(@, msg)]
Goto(conn, pc) == [conn EXCEPT !.pc = pc]

\* The Host of the requests the HTTP clients send, by method: the authority
\* of a CONNECT, the Host header of a forward request.
RequestHost ==
    [method \in {"CONNECT", "GET"} |->
        IF method = "CONNECT" THEN <<"a", ".", "i", "o", ":", "4", "4", "3">>
        ELSE <<"a", ".", "i", "o">>]

\* handleConnect dials req.Host; handleHTTP adds the port 80 to a Host that
\* has no colon.
HTTPTarget(conn) ==
    IF conn.method = "CONNECT" THEN conn.host
    ELSE IF ~Contains(conn.host, ":")
         THEN JoinHostPort(conn.host, <<"8", "0">>)
         ELSE conn.host

\* The DST.ADDR of the requests the SOCKS5 clients send, by address type:
\* four bytes, a name, or the eight groups of a 16-byte address.
RequestAddresses(atyp) ==
    IF atyp = atypIPv4 THEN {<<127, 0, 0, 1>>}
    ELSE IF atyp = atypDomain THEN {<<"a", ".", "i", "o">>}
    ELSE IF atyp = atypIPv6 THEN {<<0, 0, 0, 0, 0, 0, 0, 1>>}
    ELSE {<< >>}

RequestPorts == {443}

\* handleRequest: the text of the target address
targetAddr(atyp, addr) ==
    IF atyp = atypIPv4 THEN IPv4String(addr)
    ELSE IF atyp = atypDomain THEN addr
    ELSE IF atyp = atypIPv6 THEN IPString(addr)
    ELSE << >>

\* target := fmt.Sprintf("%s:%d", targetAddr, targetPort)
SOCKS5Target(conn) == Sprintf_s_d(conn.host, conn.port)

\* net.DialTimeout("tcp", target, 10*time.Second)
SOCKS5Network == "tcp"

\* s.sendReply(clientConn, repHostUnreachable, atyp); return err
SOCKS5DialFailed_NoReply(conn) == Close(conn)

SOCKS5DialFailed(conn) == Close(Write(conn, sendReply(repHostUnreachable)))

\* targetConn, err := net.DialTimeout(...); if err != nil { ... return }
Connected_ErrorIgnored(remote) == TRUE

Connected(remote) == remote # 0

\* The goroutines beside the handlers as NewServer and Run leave them: Run
\* waits for a signal (phase "running"; "Stop" is inside ipBanMgr.Stop(),
\* "wait" is the 5 s wait of shutdown), stopCleanup is open, the sweeper
\* waits in its select, and neither the spawned saveToFile (go) nor the one
\* Stop calls (stop) has been entered; records is the slice `records` each
\* of them has built and not yet written.
NewLife ==
    [phase |-> "running", stopCleanup |-> "open", sweeper |-> "select",
     go |-> "idle", stop |-> "idle", records |-> [go |-> << >>, stop |-> << >>]]

\* The two io.Copy goroutines of transfer, by the socket they read from.
Directions == {"client", "target"}

\* No goroutine is inside Allow: per caller where it stands in Allow and
\* getIPLimiter, the IP it was called with and the limiter it holds (the
\* number of the NewLimiter call that made it, 0 for none); and per IP the
\* number of NewLimiter calls made for it, the last of which made the
\* limiter the map holds. No handler is in transfer: per connection where
\* its handler stands ("recv" is <-done, "closed" is after the deferred
\* Close of both sockets), where its copy goroutines stand and the number
\* of signals in the channel done.
NoTasks ==
    [ allow |-> [g \in 1..MaxConns |-> [pc |-> "idle", ip |-> "", limiter |-> 0]],
      made  |-> [ip \in ClientIPs |-> 0],
      relay |-> [c \in 1..MaxConns |->
                    [pc |-> "idle", copy |-> [d \in Directions |-> "none"], done |-> 0]] ]

\* The callers of saveToFile: a spawned goroutine and Stop.
Savers == {"go", "stop"}

RLocked_Never == FALSE

\* m.mu is read-locked: some saveToFile is between RLock and its return,
\* and m.mu.Lock() blocks.
RLocked == \E s \in Savers : life[s] # "idle"

\* The server of a run in which the proxy takes no part.
ProxyIdle ==
    /\ rl = NewRateLimitMiddleware(FALSE, 0, 0)
    /\ mw = CHOOSE cfg \in ProxyConfigs : TRUE
    /\ conns = [c \in 1..MaxConns |-> FreeConn]
    /\ accepted = 0
    /\ calls = NoCalls
    /\ life = NewLife
    /\ tasks = NoTasks

LastOp(op, ip) == [op |-> op, ip |-> ip]

\* The ban manager of a run in which it takes no part.
BanIdle ==
    /\ m = NewIPBanManager(CHOOSE cfg \in BanConfigs : cfg.maxFailures = 3, << >>, 0)
    /\ file = << >>
    /\ saves = 0
    /\ streak = [ip \in IPs |-> Streak(0, FALSE)]
    /\ last = LastOp("Off", "")

\* The breaker of a run in which it takes no part.
BreakerIdle ==
    /\ cb = NewCircuitBreaker(CHOOSE cfg \in BreakerConfigs : cfg.minRequests = 3, 0)
    /\ call = IdleCall
    /\ obs = Observe("Off", FALSE, cb, 0)

(***************************************************************************)
(* The breaker driven through its public methods.  RecordSuccess,          *)
(* RecordFailure, IsOpen and GetState are invoked directly (as the         *)
(* middleware and the tests do); one goroutine runs Call step by step.     *)
(***************************************************************************)
BreakerInit ==
    /\ now = 0
    /\ \E cfg \in BreakerConfigs : cb = NewCircuitBreaker(cfg, 0)
    /\ call = IdleCall
    /\ obs = Observe("New", FALSE, cb, 0)
    /\ BanIdle
    /\ ProxyIdle

Tick ==
    /\ now < MaxTime
    /\ now' = now + 1
    /\ obs' = Recorded(Observe("Tick", FALSE, cb, obs.probes), obs)
    /\ last' = Recorded(LastOp("Tick", ""), last)
    /\ UNCHANGED <<cb, call, m, file, saves, streak, proxyVars>>

RecordSuccess ==
    /\ Len(cb.requests) < MaxWindow
    /\ cb' = CircuitBreaker_RecordSuccess(cb, now)
    /\ obs' = Observe("RecordSuccess", FALSE, cb, ProbesAfterSuccess(cb, now, obs.probes))
    /\ UNCHANGED <<now, call, m, file, saves, streak, last, proxyVars>>

RecordFailure ==
    /\ Len(cb.requests) < MaxWindow
    /\ cb' = CircuitBreaker_RecordFailure(cb, now)
    /\ obs' = Observe("RecordFailure", FALSE, cb, 0)
    /\ UNCHANGED <<now, call, m, file, saves, streak, last, proxyVars>>

IsOpen ==
    /\ obs' = Observe("IsOpen", CircuitBreaker_IsOpen(cb, now), cb, obs.probes)
    /\ UNCHANGED <<now, cb, call, m, file, saves, streak, last, proxyVars>>

GetState ==
    /\ obs' = Observe("GetState", CircuitBreaker_GetState(cb, now), cb, obs.probes)
    /\ UNCHANGED <<now, cb, call, m, file, saves, streak, last, proxyVars>>

\* Call: currentState := cb.GetState(); return ErrCircuitBreakerOpen when open
CallGetState ==
    /\ call.pc = "idle"
    /\ LET s == CircuitBreaker_GetState(cb, now)
       IN  call' = [pc |-> CallGate(s),
                    currentState |-> s,
                    err |-> FALSE,
                    ret |-> IF CallGate(s) = "idle" THEN "ErrCircuitBreakerOpen" ELSE "",
                    invoked |-> 0]
    /\ obs' = Observe("CallGetState", CircuitBreaker_GetState(cb, now), cb, obs.probes)
    /\ UNCHANGED <<now, cb, m, file, saves, streak, last, proxyVars>>

CallTransition ==
    /\ call.pc = "transition"
    /\ cb' = CircuitBreaker_CallTransition(cb, now)
    /\ call' = [call EXCEPT !.pc = "fn"]
    /\ obs' = Observe("CallTransition", FALSE, cb, obs.probes)
    /\ UNCHANGED <<now, m, file, saves, streak, last, proxyVars>>

\* err := fn()
CallFn ==
    /\ call.pc = "fn"
    /\ \E failed \in BOOLEAN :
          call' = [call EXCEPT !.pc = "record", !.err = failed, !.invoked = @ + 1]
    /\ obs' = Observe("CallFn", FALSE, cb, obs.probes)
    /\ UNCHANGED <<now, cb, m, file, saves, streak, last, proxyVars>>

\* if err != nil { cb.RecordFailure(); return err }; cb.RecordSuccess(); return nil
CallRecord ==
    /\ call.pc = "record"
    /\ Len(cb.requests) < MaxWindow
    /\ cb' = IF call.err THEN CircuitBreaker_RecordFailure(cb, now)
                         ELSE CircuitBreaker_RecordSuccess(cb, now)
    /\ call' = [call EXCEPT !.pc = "idle", !.ret = IF call.err THEN "err" ELSE "nil"]
    /\ obs' = IF call.err
              THEN Observe("RecordFailure", FALSE, cb, 0)
              ELSE Observe("RecordSuccess", FALSE, cb, ProbesAfterSuccess(cb, now, obs.probes))
    /\ UNCHANGED <<now, m, file, saves, streak, last, proxyVars>>

BreakerNext ==
    \/ Tick
    \/ RecordSuccess
    \/ RecordFailure
    \/ IsOpen
    \/ GetState
    \/ CallGetState
    \/ CallTransition
    \/ CallFn
    \/ CallRecord

SpecBreaker == BreakerInit /\ [][BreakerNext]_vars

(***************************************************************************)
(* The ban manager driven through its public methods by the connection     *)
(* goroutines, with its sweeper and the save goroutines it spawns.         *)
(***************************************************************************)
BanInit ==
    /\ now = 0
    /\ \E cfg \in BanConfigs, records \in BanFiles :
          /\ file = records
          /\ m = NewIPBanManager(cfg, records, 0)
    /\ saves = 0
    /\ streak = [ip \in IPs |-> Streak(IF IsClean(m, ip, 0) THEN 0 ELSE Untracked, FALSE)]
    /\ last = LastOp("New", "")
    /\ BreakerIdle
    /\ ProxyIdle

IPBanRecordFailure(ip) ==
    /\ ip \notin m.whitelist => ~RLocked
    /\ FiresBan(m, ip) => saves < MaxSaves
    /\ m' = IPBanManager_RecordFailure(m, ip, now)
    /\ saves' = IF FiresBan(m, ip) THEN saves + 1 ELSE saves
    /\ streak' = [streak EXCEPT ![ip] = StreakAfterFailure(@, m.maxFailures, now)]
    /\ last' = LastOp("RecordFailure", ip)
    /\ UNCHANGED <<now, file, breakerVars, proxyVars>>

IPBanRecordSuccess(ip) ==
    /\ ~RLocked
    /\ m' = IPBanManager_RecordSuccess(m, ip)
    /\ streak' = [streak EXCEPT ![ip] =
                     Streak(IF IsClean(m', ip, now) THEN 0 ELSE Untracked,
                            IPBanManager_GetFailureCount(m, ip) \in 1..(m.maxFailures - 1))]
    /\ last' = LastOp("RecordSuccess", ip)
    /\ UNCHANGED <<now, file, saves, breakerVars, proxyVars>>

UnbanIP(ip) ==
    /\ ~RLocked
    /\ saves < MaxSaves
    /\ m' = IPBanManager_UnbanIP(m, ip)
    /\ saves' = saves + 1
    /\ streak' = [streak EXCEPT ![ip] =
                     [Streak(IF IsClean(m', ip, now) THEN 0 ELSE Untracked, FALSE)
                         EXCEPT !.unbanned = TRUE]]
    /\ last' = LastOp("UnbanIP", ip)
    /\ UNCHANGED <<now, file, breakerVars, proxyVars>>

\* The ticker of cleanupExpiredBans fires.
Sweep ==
    /\ life.sweeper = "select"
    /\ ~RLocked
    /\ ExpiredBans(m, now) # {} => saves < MaxSaves
    /\ m' = cleanupExpiredBans(m, now)
    /\ saves' = IF ExpiredBans(m, now) # {} THEN saves + 1 ELSE saves
    /\ last' = Recorded(LastOp("Sweep", ""), last)
    /\ UNCHANGED <<now, file, streak, breakerVars, proxyVars>>

\* A spawned saveToFile runs; it holds the read lock from the snapshot to the
\* end of the write.
SaveToFile ==
    /\ saves > 0
    /\ file' \in saveToFile(m, now)
    /\ saves' = saves - 1
    /\ last' = Recorded(LastOp("saveToFile", ""), last)
    /\ UNCHANGED <<now, m, streak, breakerVars, proxyVars>>

BanNext ==
    \/ Tick
    \/ \E ip \in IPs : IPBanRecordFailure(ip)
    \/ \E ip \in IPs : IPBanRecordSuccess(ip)
    \/ \E ip \in IPs : UnbanIP(ip)
    \/ Sweep
    \/ SaveToFile

SpecBan == BanInit /\ [][BanNext]_vars

(***************************************************************************)
(* The server: both listeners accept connections and every connection is   *)
(* handled by its own goroutine, one step per call into a shared manager   *)
(* or per socket operation, with the spawned save goroutines beside them.  *)
(* The handlers run within one tick of the clock (neither the break nor    *)
(* the ban duration elapses, the sweeper's ticker does not fire); what the *)
(* clock does to the managers is the subject of SpecBreaker and SpecBan.   *)
(***************************************************************************)
ProxyInit ==
    /\ now = 0
    /\ mw \in ProxyConfigs
    /\ cb = NewCircuitBreaker(mw.breaker, 0)
    /\ call = IdleCall
    /\ obs = Observe("Off", FALSE, cb, 0)
    /\ m = NewIPBanManager(mw.ban, << >>, 0)
    /\ file = << >>
    /\ saves = 0
    /\ streak = [ip \in {} |-> Streak(0, FALSE)]
    /\ last = LastOp("Off", "")
    /\ rl = NewRateLimitMiddleware(mw.rateEnabled, mw.globalRPS, mw.perIPRPS)
    /\ conns = [c \in 1..MaxConns |-> FreeConn]
    /\ accepted = 0
    /\ calls = NoCalls
    /\ life = NewLife
    /\ tasks = NoTasks

Reusable(c) == conns[c].pc \in {"free", "closed"}

\* `go handleConnection(conn)` starts a handler, in the first slot that holds
\* no running handler.
Serve(proto, ip) ==
    LET slot == CHOOSE c \in 1..MaxConns :
                   Reusable(c) /\ \A d \in 1..(c - 1) : ~Reusable(d)
    IN  [conns EXCEPT ![slot] = NewConn(proto, ip)]

\* The HTTP listener's Accept returns a connection.
HTTPAccept(ip) ==
    /\ accepted < MaxAccepts
    /\ \E c \in 1..MaxConns : Reusable(c)
    /\ conns' = Serve("http", ip)
    /\ accepted' = accepted + 1
    /\ UNCHANGED <<now, breakerVars, banVars, rl, mw, calls, life, tasks>>

\* The SOCKS5 listener's Accept returns a connection.
SOCKS5Accept(ip) ==
    /\ accepted < MaxAccepts
    /\ \E c \in 1..MaxConns : Reusable(c)
    /\ conns' = Serve("socks5", ip)
    /\ accepted' = accepted + 1
    /\ UNCHANGED <<now, breakerVars, banVars, rl, mw, calls, life, tasks>>

At(c, proto, pc) == conns[c].proto = proto /\ conns[c].pc = pc

\* if h.circuitBreaker.IsOpen() { sendError(503); return }
HTTPCheckBreaker(c) ==
    /\ At(c, "http", "breaker")
    /\ LET isOpen == CircuitBreakerMiddleware_IsOpen(mw, cb, now)
           c1 == Called(conns[c], "circuitBreaker.IsOpen", isOpen)
       IN  conns' = [conns EXCEPT ![c] =
                       IF isOpen
                       THEN Close(Write(c1, sendError(StatusServiceUnavailable)))
                       ELSE Goto(c1, AfterCheck("breaker"))]
    /\ UNCHANGED <<now, breakerVars, banVars, rl, mw, accepted, calls, life, tasks>>

\* if h.ipBan.IsBlocked(clientIP) { sendError(403); return }
HTTPCheckBan(c) ==
    /\ At(c, "http", "ban")
    /\ LET blocked == IPBanMiddleware_IsBlocked(mw, m, conns[c].ip, now)
           c1 == Called(conns[c], "ipBan.IsBlocked", blocked)
       IN  conns' = [conns EXCEPT ![c] =
                       IF blocked
                       THEN Close(Write(c1, sendError(StatusForbidden)))
                       ELSE Goto(c1, AfterCheck("ban"))]
    /\ UNCHANGED <<now, breakerVars, banVars, rl, mw, accepted, calls, life, tasks>>

\* if !h.rateLimit.Allow(clientIP) { sendError(429); return }
HTTPCheckRate(c) ==
    /\ At(c, "http", "rate")
    /\ LET res == RateLimitMiddleware_Allow(rl, conns[c].ip, now)
           c1 == [Called(conns[c], "rateLimit.Allow", res.ok) EXCEPT !.taken = @ + res.taken]
       IN  /\ rl' = res.rl
           /\ conns' = [conns EXCEPT ![c] =
                          IF ~res.ok
                          THEN Close(Write(c1, sendError(StatusTooManyRequests)))
                          ELSE Goto(c1, AfterCheck("rate"))]
    /\ UNCHANGED <<now, breakerVars, banVars, mw, accepted, calls, life, tasks>>

\* http.ReadRequest, then parseProxyAuth and Authenticate when auth is enabled
HTTPReadRequest(c) ==
    /\ At(c, "http", "handshake")
    /\ \/ conns' = [conns EXCEPT ![c] = Close(Called(@, "http.ReadRequest", FALSE))]
       \/ \E h \in ProxyAuthHeaders, method \in {"CONNECT", "GET"} :
             LET c1 == [Called(conns[c], "http.ReadRequest", TRUE)
                           EXCEPT !.creds = h, !.method = method,
                                  !.host = RequestHost[method]]
                 passes == HTTPAuthPasses(mw.auth, h)
             IN  conns' = [conns EXCEPT ![c] =
                             IF ~mw.auth.enabled THEN Goto(c1, "dial")
                             ELSE IF passes
                             THEN Goto([Called(c1, "auth", TRUE) EXCEPT !.auth = "ok"], "ok_ban")
                             ELSE Goto([Called(c1, "auth", FALSE) EXCEPT !.auth = "fail"], "fail_ban")]
    /\ UNCHANGED <<now, breakerVars, banVars, rl, mw, accepted, calls, life, tasks>>

\* ipBan.RecordAuthFailure(clientIP), of either frontend
AuthFailBan(c) ==
    /\ (mw.ipBanEnabled /\ conns[c].ip \notin m.whitelist) => ~RLocked
    /\ (mw.ipBanEnabled /\ FiresBan(m, conns[c].ip)) => saves < MaxSaves
    /\ m' = IPBanMiddleware_RecordAuthFailure(mw, m, conns[c].ip, now)
    /\ saves' = IF mw.ipBanEnabled /\ FiresBan(m, conns[c].ip) THEN saves + 1 ELSE saves
    /\ streak' = IF conns[c].ip \in DOMAIN streak
                  THEN [streak EXCEPT ![conns[c].ip] = StreakAfterFailure(@, m.maxFailures, now)]
                  ELSE streak
    /\ conns' = [conns EXCEPT ![c] = Goto(Called(@, "ipBan.RecordAuthFailure", TRUE), "fail_cb")]
    /\ UNCHANGED <<now, breakerVars, file, last, rl, mw, accepted, calls, life, tasks>>

\* ipBan.RecordAuthSuccess(clientIP), of either frontend
AuthOKBan(c) ==
    /\ mw.ipBanEnabled => ~RLocked
    /\ m' = IPBanMiddleware_RecordAuthSuccess(mw, m, conns[c].ip)
    /\ streak' = IF conns[c].ip \in DOMAIN streak
                  THEN [streak EXCEPT ![conns[c].ip] =
                          Streak(IF IsClean(m', conns[c].ip, now) THEN 0 ELSE Untracked,
                                 IPBanManager_GetFailureCount(m, conns[c].ip)
                                     \in 1..(m.maxFailures - 1))]
                  ELSE streak
    /\ conns' = [conns EXCEPT ![c] = Goto(Called(@, "ipBan.RecordAuthSuccess", TRUE), "ok_cb")]
    /\ UNCHANGED <<now, breakerVars, file, saves, last, rl, mw, accepted, calls, life, tasks>>

HTTPAuthFailBan(c) ==
    /\ At(c, "http", "fail_ban")
    /\ AuthFailBan(c)

\* circuitBreaker.RecordAuthFailure(); sendProxyAuthRequired(clientConn); return
HTTPAuthFailBreaker(c) ==
    /\ At(c, "http", "fail_cb")
    /\ Len(cb.requests) < MaxWindow
    /\ cb' = CircuitBreakerMiddleware_RecordAuthFailure(mw, cb, now)
    /\ conns' = [conns EXCEPT ![c] =
                   Close(Write(Called(@, "circuitBreaker.RecordAuthFailure", TRUE),
                               sendProxyAuthRequired))]
    /\ UNCHANGED <<now, call, obs, banVars, rl, mw, accepted, calls, life, tasks>>

HTTPAuthOKBan(c) ==
    /\ At(c, "http", "ok_ban")
    /\ AuthOKBan(c)

\* circuitBreaker.RecordAuthSuccess()
HTTPAuthOKBreaker(c) ==
    /\ At(c, "http", "ok_cb")
    /\ Len(cb.requests) < MaxWindow
    /\ cb' = CircuitBreakerMiddleware_RecordAuthSuccess(mw, cb, now)
    /\ conns' = [conns EXCEPT ![c] =
                   Goto(Called(@, "circuitBreaker.RecordAuthSuccess", TRUE), "dial")]
    /\ UNCHANGED <<now, call, obs, banVars, rl, mw, accepted, calls, life, tasks>>

\* handleConnect / handleHTTP: net.DialTimeout, then 200 (CONNECT) or the
\* request written upstream (forward), or 502 when the dial fails; a failed
\* write of the 200, or of the request, ends the handler
HTTPDial(c) ==
    /\ At(c, "http", "dial")
    /\ \E remote \in DialTimeout(mw.network, HTTPTarget(conns[c])), written \in BOOLEAN :
          LET ok == Connected(remote)
              c1 == [Called(conns[c], "net.DialTimeout", ok)
                        EXCEPT !.dial = [network |-> mw.network,
                                         address |-> HTTPTarget(conns[c]),
                                         remote |-> remote]]
          IN  conns' = [conns EXCEPT ![c] =
                          IF ~ok THEN Close(Write(c1, sendError(StatusBadGateway)))
                          ELSE IF ~written
                          THEN Close(Called(c1, "Write", FALSE))
                          ELSE IF c1.method = "CONNECT"
                          THEN Goto(Write(c1, ConnectionEstablished), "relay")
                          ELSE Goto(Called(c1, "Write", TRUE), "relay")]
    /\ UNCHANGED <<now, breakerVars, banVars, rl, mw, accepted, calls, life, tasks>>

\* transfer (CONNECT) or io.Copy of the response (forward) ends; the
\* deferred Close calls run
HTTPRelay(c) ==
    /\ At(c, "http", "relay")
    /\ conns' = [conns EXCEPT ![c] = Close(Called(@, "transfer", TRUE))]
    /\ UNCHANGED <<now, breakerVars, banVars, rl, mw, accepted, calls, life, tasks>>

\* if s.circuitBreaker.IsOpen() { return }
SOCKS5CheckBreaker(c) ==
    /\ At(c, "socks5", "breaker")
    /\ LET isOpen == CircuitBreakerMiddleware_IsOpen(mw, cb, now)
           c1 == Called(conns[c], "circuitBreaker.IsOpen", isOpen)
       IN  conns' = [conns EXCEPT ![c] =
                       IF isOpen THEN Close(c1) ELSE Goto(c1, AfterCheck("breaker"))]
    /\ UNCHANGED <<now, breakerVars, banVars, rl, mw, accepted, calls, life, tasks>>

\* if s.ipBan.IsBlocked(clientIP) { return }
SOCKS5CheckBan(c) ==
    /\ At(c, "socks5", "ban")
    /\ LET blocked == IPBanMiddleware_IsBlocked(mw, m, conns[c].ip, now)
           c1 == Called(conns[c], "ipBan.IsBlocked", blocked)
       IN  conns' = [conns EXCEPT ![c] =
                       IF blocked THEN Close(c1) ELSE Goto(c1, AfterCheck("ban"))]
    /\ UNCHANGED <<now, breakerVars, banVars, rl, mw, accepted, calls, life, tasks>>

\* if !s.rateLimit.Allow(clientIP) { return }
SOCKS5CheckRate(c) ==
    /\ At(c, "socks5", "rate")
    /\ LET res == RateLimitMiddleware_Allow(rl, conns[c].ip, now)
           c1 == [Called(conns[c], "rateLimit.Allow", res.ok) EXCEPT !.taken = @ + res.taken]
       IN  /\ rl' = res.rl
           /\ conns' = [conns EXCEPT ![c] =
                          IF ~res.ok THEN Close(c1) ELSE Goto(c1, AfterCheck("rate"))]
    /\ UNCHANGED <<now, breakerVars, banVars, mw, accepted, calls, life, tasks>>

\* handshake: read the version and the methods, write the selected method
SOCKS5Greeting(c) ==
    /\ At(c, "socks5", "handshake")
    /\ \/ conns' = [conns EXCEPT ![c] = Close(Called(@, "readGreeting", FALSE))]
       \/ \E methods \in MethodLists :
             LET selected == SelectMethod(mw.auth.enabled, methods)
                 c1 == [Write(Called(conns[c], "readGreeting", TRUE),
                              <<socks5Version, selected>>)
                           EXCEPT !.offered = methods]
             IN  conns' = [conns EXCEPT ![c] =
                             IF selected = authNoAccept THEN Close(c1)
                             ELSE IF selected = authPassword THEN Goto(c1, "subneg")
                             ELSE Goto(c1, "request")]
    /\ UNCHANGED <<now, breakerVars, banVars, rl, mw, accepted, calls, life, tasks>>

\* authenticatePassword: read the sub-negotiation and call Authenticate
SOCKS5ReadAuth(c) ==
    /\ At(c, "socks5", "subneg")
    /\ \/ conns' = [conns EXCEPT ![c] = Close(Called(@, "readAuth", FALSE))]
       \/ \E up \in Socks5Credentials :
             LET c1 == [Called(conns[c], "readAuth", TRUE)
                           EXCEPT !.creds = Header("RFC1929", TRUE, up)]
                 authSuccess == AuthMiddleware_Authenticate(mw.auth, up[1], up[2])
             IN  conns' = [conns EXCEPT ![c] =
                             IF authSuccess
                             THEN Goto([Called(c1, "auth", TRUE) EXCEPT !.auth = "ok"], "ok_ban")
                             ELSE Goto([Called(c1, "auth", FALSE) EXCEPT !.auth = "fail"], "fail_ban")]
    /\ UNCHANGED <<now, breakerVars, banVars, rl, mw, accepted, calls, life, tasks>>

SOCKS5AuthFailBan(c) ==
    /\ At(c, "socks5", "fail_ban")
    /\ AuthFailBan(c)

\* circuitBreaker.RecordAuthFailure(); conn.Write({0x01, 0x01}); return error
SOCKS5AuthFailBreaker(c) ==
    /\ At(c, "socks5", "fail_cb")
    /\ Len(cb.requests) < MaxWindow
    /\ cb' = CircuitBreakerMiddleware_RecordAuthFailure(mw, cb, now)
    /\ conns' = [conns EXCEPT ![c] =
                   Close(Write(Called(@, "circuitBreaker.RecordAuthFailure", TRUE), <<1, 1>>))]
    /\ UNCHANGED <<now, call, obs, banVars, rl, mw, accepted, calls, life, tasks>>

SOCKS5AuthOKBan(c) ==
    /\ At(c, "socks5", "ok_ban")
    /\ AuthOKBan(c)

\* circuitBreaker.RecordAuthSuccess(); conn.Write({0x01, 0x00})
SOCKS5AuthOKBreaker(c) ==
    /\ At(c, "socks5", "ok_cb")
    /\ Len(cb.requests) < MaxWindow
    /\ cb' = CircuitBreakerMiddleware_RecordAuthSuccess(mw, cb, now)
    /\ conns' = [conns EXCEPT ![c] =
                   Goto(Write(Called(@, "circuitBreaker.RecordAuthSuccess", TRUE), <<1, 0>>),
                        "request")]
    /\ UNCHANGED <<now, call, obs, banVars, rl, mw, accepted, calls, life, tasks>>

\* handleRequest up to the dial: read and check version, command, address
\* type, address and port
SOCKS5ReadRequest(c) ==
    /\ At(c, "socks5", "request")
    /\ \/ conns' = [conns EXCEPT ![c] = Close(Called(@, "readRequest", FALSE))]
       \/ \E version \in {socks5Version, 4}, cmd \in {cmdConnect, 2},
             atyp \in {atypIPv4, atypDomain, atypIPv6, 9}, complete \in BOOLEAN :
          \E addr \in RequestAddresses(atyp), targetPort \in RequestPorts :
             LET c1 == Called(conns[c], "readRequest", TRUE)
                 c2 == [c1 EXCEPT !.atyp = atyp,
                                  !.host = targetAddr(atyp, addr),
                                  !.port = targetPort]
             IN  conns' = [conns EXCEPT ![c] =
                   IF version # socks5Version
                   THEN Close(Write(c1, sendReply(repServerFailure)))
                   ELSE IF cmd # cmdConnect
                   THEN Close(Write(c1, sendReply(repCommandNotSupported)))
                   ELSE IF atyp \notin {atypIPv4, atypDomain, atypIPv6}
                   THEN Close(Write(c1, sendReply(repAddressNotSupported)))
                   ELSE IF ~complete
                   THEN Close(Write(c1, sendReply(repServerFailure)))
                   ELSE Goto(c2, "dial")]
    /\ UNCHANGED <<now, breakerVars, banVars, rl, mw, accepted, calls, life, tasks>>

\* net.DialTimeout, then the reply: success, or host unreachable
SOCKS5Dial(c) ==
    /\ At(c, "socks5", "dial")
    /\ \E remote \in DialTimeout(SOCKS5Network, SOCKS5Target(conns[c])) :
          LET ok == Connected(remote)
              c1 == [Called(conns[c], "net.DialTimeout", ok)
                        EXCEPT !.dial = [network |-> SOCKS5Network,
                                         address |-> SOCKS5Target(conns[c]),
                                         remote |-> remote]]
          IN  conns' = [conns EXCEPT ![c] =
                          IF ~ok THEN SOCKS5DialFailed(c1)
                          ELSE Goto(Write(c1, sendReply(repSuccess)), "relay")]
    /\ UNCHANGED <<now, breakerVars, banVars, rl, mw, accepted, calls, life, tasks>>

\* transfer ends; the deferred Close calls run
SOCKS5Relay(c) ==
    /\ At(c, "socks5", "relay")
    /\ conns' = [conns EXCEPT ![c] = Close(Called(@, "transfer", TRUE))]
    /\ UNCHANGED <<now, breakerVars, banVars, rl, mw, accepted, calls, life, tasks>>

ProxyNext ==
    \/ SaveToFile
    \/ \E ip \in ClientIPs : HTTPAccept(ip)
    \/ \E ip \in ClientIPs : SOCKS5Accept(ip)
    \/ \E c \in 1..MaxConns :
          \/ HTTPCheckBreaker(c)
          \/ HTTPCheckBan(c)
          \/ HTTPCheckRate(c)
          \/ HTTPReadRequest(c)
          \/ HTTPAuthFailBan(c)
          \/ HTTPAuthFailBreaker(c)
          \/ HTTPAuthOKBan(c)
          \/ HTTPAuthOKBreaker(c)
          \/ HTTPDial(c)
          \/ HTTPRelay(c)
          \/ SOCKS5CheckBreaker(c)
          \/ SOCKS5CheckBan(c)
          \/ SOCKS5CheckRate(c)
          \/ SOCKS5Greeting(c)
          \/ SOCKS5ReadAuth(c)
          \/ SOCKS5AuthFailBan(c)
          \/ SOCKS5AuthFailBreaker(c)
          \/ SOCKS5AuthOKBan(c)
          \/ SOCKS5AuthOKBreaker(c)
          \/ SOCKS5ReadRequest(c)
          \/ SOCKS5Dial(c)
          \/ SOCKS5Relay(c)

SpecProxy == ProxyInit /\ [][ProxyNext]_vars

(***************************************************************************)
(* The server with one HTTP client at a time and the clock running: the    *)
(* ban manager as the only filter (breaker and rate limiter disabled), the *)
(* sweeper and the save goroutines beside the handler.                     *)
(***************************************************************************)
SeqConfigs ==
    { [ auth           |-> NewAuthMiddleware(TRUE, [u \in {"user1"} |-> "pass1"]),
        ipBanEnabled   |-> TRUE,
        breakerEnabled |-> FALSE,
        rateEnabled    |-> FALSE,
        globalRPS      |-> 0,
        perIPRPS       |-> 0,
        network        |-> "tcp",
        ban            |-> [maxFailures |-> 3, banDuration |-> 2, whitelist |-> {}],
        breaker        |-> [failureThreshold |-> 50, windowSize |-> 3,
                            minRequests |-> 2, breakDuration |-> 1] ] }

SeqInit ==
    /\ now = 0
    /\ mw \in SeqConfigs
    /\ cb = NewCircuitBreaker(mw.breaker, 0)
    /\ call = IdleCall
    /\ obs = Observe("Off", FALSE, cb, 0)
    /\ m = NewIPBanManager(mw.ban, << >>, 0)
    /\ file = << >>
    /\ saves = 0
    /\ streak = [ip \in ClientIPs |-> Streak(0, FALSE)]
    /\ last = LastOp("Off", "")
    /\ rl = NewRateLimitMiddleware(mw.rateEnabled, mw.globalRPS, mw.perIPRPS)
    /\ conns = [c \in 1..MaxConns |-> FreeConn]
    /\ accepted = 0
    /\ calls = NoCalls
    /\ life = NewLife
    /\ tasks = NoTasks

\* The HTTP listener's Accept returns the next client's connection once the
\* handler of the previous one has returned.
SeqHTTPAccept(ip) ==
    /\ accepted < MaxSeqAccepts
    /\ \A c \in 1..MaxConns : Reusable(c)
    /\ conns' = Serve("http", ip)
    /\ accepted' = accepted + 1
    /\ UNCHANGED <<now, breakerVars, banVars, rl, mw, calls, life, tasks>>

SeqNext ==
    \/ Tick
    \/ Sweep
    \/ SaveToFile
    \/ \E ip \in ClientIPs : SeqHTTPAccept(ip)
    \/ \E c \in 1..MaxConns :
          \/ HTTPCheckBreaker(c)
          \/ HTTPCheckBan(c)
          \/ HTTPCheckRate(c)
          \/ HTTPReadRequest(c)
          \/ HTTPAuthFailBan(c)
          \/ HTTPAuthFailBreaker(c)
          \/ HTTPAuthOKBan(c)
          \/ HTTPAuthOKBreaker(c)
          \/ HTTPDial(c)
          \/ HTTPRelay(c)

SpecSeq == SeqInit /\ [][SeqNext]_vars

(***************************************************************************)
(* The server from Run to the end of shutdown: one client at a time on     *)
(* either listener, the clock running, the sweeper in its select loop,     *)
(* saveToFile step by step (RLock, MkdirAll, WriteFile and return), and    *)
(* the goroutine of Run, which receives the signal, calls Stop and waits.  *)
(***************************************************************************)
\* The configuration of SeqConfigs with max_failures 2 and a ban of 1.
LifeInit ==
    /\ now = 0
    /\ mw \in { [cfg EXCEPT !.ban = [maxFailures |-> 2, banDuration |-> 1,
                                     whitelist |-> {}]] : cfg \in SeqConfigs }
    /\ cb = NewCircuitBreaker(mw.breaker, 0)
    /\ call = IdleCall
    /\ obs = Observe("Off", FALSE, cb, 0)
    /\ m = NewIPBanManager(mw.ban, << >>, 0)
    /\ file = << >>
    /\ saves = 0
    /\ streak = [ip \in {} |-> Streak(0, FALSE)]
    /\ last = LastOp("Off", "")
    /\ rl = NewRateLimitMiddleware(mw.rateEnabled, mw.globalRPS, mw.perIPRPS)
    /\ conns = [c \in 1..MaxConns |-> FreeConn]
    /\ accepted = 0
    /\ calls = NoCalls
    /\ life = NewLife
    /\ tasks = NoTasks

\* The Accept of the listener of either frontend returns the next client's
\* connection once the handler of the previous one has returned.
LifeAccept(proto, ip) ==
    /\ accepted < MaxLifeAccepts
    /\ \A c \in 1..MaxConns : Reusable(c)
    /\ conns' = Serve(proto, ip)
    /\ accepted' = accepted + 1
    /\ UNCHANGED <<now, breakerVars, banVars, rl, mw, calls, life, tasks>>

Signal_NoClose ==
    /\ life.phase = "running"
    /\ life' = [life EXCEPT !.phase = "Stop"]
    /\ UNCHANGED <<now, breakerVars, banVars, rl, mw, conns, accepted, calls, tasks>>

\* sig := <-sigChan in waitForShutdown, shutdown(), and in Stop
\* close(m.stopCleanup), up to the call of saveToFile.
Signal ==
    /\ life.phase = "running"
    /\ life' = [life EXCEPT !.phase = "Stop", !.stopCleanup = "closed"]
    /\ UNCHANGED <<now, breakerVars, banVars, rl, mw, conns, accepted, calls, tasks>>

\* case <-m.stopCleanup: return
SweeperExit ==
    /\ life.sweeper = "select"
    /\ life.stopCleanup = "closed"
    /\ life' = [life EXCEPT !.sweeper = "returned"]
    /\ UNCHANGED <<now, breakerVars, banVars, rl, mw, conns, accepted, calls, tasks>>

\* m.mu.RLock(); defer m.mu.RUnlock(), in a spawned saveToFile that starts
\* to run or in the one Stop calls
SaveRLock(s) ==
    /\ life[s] = "idle"
    /\ IF s = "go" THEN saves > 0 ELSE life.phase = "Stop"
    /\ life' = [life EXCEPT ![s] = "MkdirAll"]
    /\ saves' = IF s = "go" THEN saves - 1 ELSE saves
    /\ UNCHANGED <<now, breakerVars, m, file, streak, last, rl, mw, conns, accepted, calls, tasks>>

\* os.MkdirAll("data", 0755), then now := time.Now() and the two loops that
\* build the records from the maps
SaveMkdirAll(s) ==
    /\ life[s] = "MkdirAll"
    /\ \E records \in saveToFile(m, now) :
          life' = [life EXCEPT ![s] = "WriteFile", !.records[s] = records]
    /\ UNCHANGED <<now, breakerVars, banVars, rl, mw, conns, accepted, calls, tasks>>

\* json.MarshalIndent, os.WriteFile and the return, which runs the deferred
\* RUnlock; Stop returns with it and shutdown begins its wait.
SaveWriteFile(s) ==
    /\ life[s] = "WriteFile"
    /\ file' = life.records[s]
    /\ life' = [life EXCEPT ![s] = "idle", !.records[s] = << >>,
                            !.phase = IF s = "stop" THEN "wait" ELSE @]
    /\ last' = Recorded(LastOp("saveToFile", ""), last)
    /\ UNCHANGED <<now, breakerVars, m, saves, streak, rl, mw, conns, accepted, calls, tasks>>

LifeNext ==
    \/ Tick
    \/ Sweep
    \/ SweeperExit
    \/ Signal
    \/ \E s \in Savers : SaveRLock(s)
    \/ \E s \in Savers : SaveMkdirAll(s)
    \/ \E s \in Savers : SaveWriteFile(s)
    \/ \E proto \in {"http", "socks5"}, ip \in ClientIPs : LifeAccept(proto, ip)
    \/ \E c \in 1..MaxConns :
          \/ HTTPCheckBreaker(c)
          \/ HTTPCheckBan(c)
          \/ HTTPCheckRate(c)
          \/ HTTPReadRequest(c)
          \/ HTTPAuthFailBan(c)
          \/ HTTPAuthFailBreaker(c)
          \/ HTTPAuthOKBan(c)
          \/ HTTPAuthOKBreaker(c)
          \/ HTTPDial(c)
          \/ HTTPRelay(c)
          \/ SOCKS5CheckBreaker(c)
          \/ SOCKS5CheckBan(c)
          \/ SOCKS5CheckRate(c)
          \/ SOCKS5Greeting(c)
          \/ SOCKS5ReadAuth(c)
          \/ SOCKS5AuthFailBan(c)
          \/ SOCKS5AuthFailBreaker(c)
          \/ SOCKS5AuthOKBan(c)
          \/ SOCKS5AuthOKBreaker(c)
          \/ SOCKS5ReadRequest(c)
          \/ SOCKS5Dial(c)
          \/ SOCKS5Relay(c)

SpecLife == LifeInit /\ [][LifeNext]_vars

\* The Go scheduler runs every goroutine that can run: the sweeper takes
\* the stopCleanup case of its select once the channel is closed, and a
\* saveToFile that has been entered goes on to its return.
SpecLifeFair ==
    /\ SpecLife
    /\ WF_vars(SweeperExit)
    /\ \A s \in Savers :
          /\ WF_vars(SaveRLock(s))
          /\ WF_vars(SaveMkdirAll(s))
          /\ WF_vars(SaveWriteFile(s))

\* Concurrent handlers of both frontends, as in SpecProxy, under the
\* configuration of LifeInit: authentication and the ban tracker enabled,
\* the breaker and the rate limiter disabled, so that several connections of
\* one IP reach the handshake at the same time.
SpecRace == LifeInit /\ [][ProxyNext]_vars

(***************************************************************************)
(* The rate-limit middleware called directly, as its tests call it, with   *)
(* the clock running.                                                      *)
(***************************************************************************)
RateConfigs ==
    { [enabled |-> TRUE,  globalRPS |-> 4, perIPRPS |-> 1],
      [enabled |-> TRUE,  globalRPS |-> 0, perIPRPS |-> 2],
      [enabled |-> TRUE,  globalRPS |-> 1, perIPRPS |-> 1],
      [enabled |-> FALSE, globalRPS |-> 1, perIPRPS |-> 1] }

RateInit ==
    /\ now = 0
    /\ \E cfg \in RateConfigs :
          rl = NewRateLimitMiddleware(cfg.enabled, cfg.globalRPS, cfg.perIPRPS)
    /\ BreakerIdle
    /\ BanIdle
    /\ mw = CHOOSE cfg \in ProxyConfigs : TRUE
    /\ conns = [c \in 1..MaxConns |-> FreeConn]
    /\ accepted = 0
    /\ calls = NoCalls
    /\ life = NewLife
    /\ tasks = NoTasks

\* rateLimit.Allow(ip)
Allow(ip) ==
    /\ calls[ip].n < MaxCalls
    /\ LET res == RateLimitMiddleware_Allow(rl, ip, now)
       IN  /\ rl' = res.rl
           /\ calls' = [calls EXCEPT ![ip] =
                           [n |-> @.n + 1,
                            first |-> IF @.n = 0 THEN now ELSE @.first,
                            ok |-> res.ok]]
    /\ UNCHANGED <<now, breakerVars, banVars, mw, conns, accepted, life, tasks>>

RateNext ==
    \/ Tick
    \/ \E ip \in ClientIPs : Allow(ip)

SpecRate == RateInit /\ [][RateNext]_vars

(***************************************************************************)
(* Allow called by several goroutines at once: the global limiter's Allow, *)
(* the read-locked lookup of getIPLimiter, its write-locked double check   *)
(* and insert, and the per-IP limiter's Allow are steps of their own, all  *)
(* within one tick of the clock.                                           *)
(***************************************************************************)
Caller(g) == tasks.allow[g]

\* Allow up to the call of getIPLimiter: the enabled test and the global
\* limiter's Allow.
AllowEnter(g, ip) ==
    /\ Caller(g).pc = "idle"
    /\ calls[ip].n < MaxAllowCalls
    /\ LET refused == rl.hasGlobal /\ ~LimiterAllows(rl.globalLimiter, now)
           returns == ~rl.enabled \/ refused
       IN  /\ rl' = IF rl.enabled /\ rl.hasGlobal
                    THEN [rl EXCEPT !.globalLimiter = LimiterTake(@, now)]
                    ELSE rl
           /\ calls' = [calls EXCEPT ![ip] =
                           [n |-> @.n + 1,
                            first |-> IF @.n = 0 THEN now ELSE @.first,
                            ok |-> IF returns THEN ~rl.enabled ELSE @.ok]]
           /\ tasks' = [tasks EXCEPT !.allow[g] =
                           IF returns THEN @
                           ELSE [pc |-> "RLock", ip |-> ip, limiter |-> 0]]
    /\ UNCHANGED <<now, breakerVars, banVars, mw, conns, accepted, life>>

\* r.mu.RLock(); limiter, exists := r.perIPLimiters[ip]; r.mu.RUnlock()
GetIPLimiterRLock(g) ==
    /\ Caller(g).pc = "RLock"
    /\ tasks' = [tasks EXCEPT !.allow[g] =
                    IF Caller(g).ip \in DOMAIN rl.perIPLimiters
                    THEN [@ EXCEPT !.pc = "Allow",
                                   !.limiter = tasks.made[Caller(g).ip]]
                    ELSE [@ EXCEPT !.pc = "Lock"]]
    /\ UNCHANGED <<now, breakerVars, banVars, rl, mw, conns, accepted, calls, life>>

GetIPLimiterLock_NoDoubleCheck(g) ==
    /\ Caller(g).pc = "Lock"
    /\ LET ip == Caller(g).ip
       IN  /\ rl' = [rl EXCEPT !.perIPLimiters =
                        MapPut(@, ip, NewLimiter(rl.perIPLimit, rl.perIPBurst))]
           /\ tasks' = [tasks EXCEPT !.made[ip] = @ + 1,
                                     !.allow[g] = [@ EXCEPT !.pc = "Allow",
                                                            !.limiter = tasks.made[ip] + 1]]
    /\ UNCHANGED <<now, breakerVars, banVars, mw, conns, accepted, calls, life>>

\* r.mu.Lock(); the second lookup; rate.NewLimiter and the insert when the
\* IP still has no limiter; r.mu.Unlock()
GetIPLimiterLock(g) ==
    /\ Caller(g).pc = "Lock"
    /\ LET ip == Caller(g).ip
           exists == ip \in DOMAIN rl.perIPLimiters
           made == IF exists THEN tasks.made[ip] ELSE tasks.made[ip] + 1
       IN  /\ rl' = getIPLimiter(rl, ip)
           /\ tasks' = [tasks EXCEPT !.made[ip] = made,
                                     !.allow[g] = [@ EXCEPT !.pc = "Allow",
                                                            !.limiter = made]]
    /\ UNCHANGED <<now, breakerVars, banVars, mw, conns, accepted, calls, life>>

\* return limiter.Allow(): on the limiter the map holds, or on one that is
\* no longer in the map, whose tokens the model does not follow.
LimiterAllow(g) ==
    /\ Caller(g).pc = "Allow"
    /\ LET ip == Caller(g).ip
           held == Caller(g).limiter = tasks.made[ip]
       IN  \E ok \in BOOLEAN :
              /\ held => ok = LimiterAllows(rl.perIPLimiters[ip], now)
              /\ rl' = IF held
                       THEN [rl EXCEPT !.perIPLimiters[ip] = LimiterTake(@, now)]
                       ELSE rl
              /\ calls' = [calls EXCEPT ![ip].ok = ok]
    /\ tasks' = [tasks EXCEPT !.allow[g] = [pc |-> "idle", ip |-> "", limiter |-> 0]]
    /\ UNCHANGED <<now, breakerVars, banVars, mw, conns, accepted, life>>

AllowNext ==
    \/ \E g \in 1..MaxConns, ip \in ClientIPs : AllowEnter(g, ip)
    \/ \E g \in 1..MaxConns :
          \/ GetIPLimiterRLock(g)
          \/ GetIPLimiterLock(g)
          \/ LimiterAllow(g)

SpecAllow == RateInit /\ [][AllowNext]_vars

(***************************************************************************)
(* transfer, the relay of a tunnel of either frontend: the handler spawns  *)
(* the two copy goroutines and waits for the first signal on done; each    *)
(* copy goroutine sends its signal when its io.Copy has returned.          *)
(***************************************************************************)
\* cap(done) of done := make(chan struct{}, 2)
doneCap == 2

\* done := make(chan struct{}, 2) and the two go statements, up to <-done
Transfer(c) ==
    /\ tasks.relay[c].pc = "idle"
    /\ tasks' = [tasks EXCEPT !.relay[c] =
                    [pc |-> "recv", copy |-> [d \in Directions |-> "io.Copy"], done |-> 0]]
    /\ UNCHANGED <<now, breakerVars, banVars, rl, mw, conns, accepted, calls, life>>

\* io.Copy returns: the socket it reads from has reached its end or a read
\* or write has failed, as happens when the peer ends and, at the latest,
\* when the sockets have been closed.
CopyReturns(c, d) ==
    /\ tasks.relay[c].copy[d] = "io.Copy"
    /\ tasks' = [tasks EXCEPT !.relay[c].copy[d] = "send"]
    /\ UNCHANGED <<now, breakerVars, banVars, rl, mw, conns, accepted, calls, life>>

CopySignals_Cap1(c, d) ==
    /\ tasks.relay[c].copy[d] = "send"
    /\ tasks.relay[c].done < 1
    /\ tasks' = [tasks EXCEPT !.relay[c].copy[d] = "exited", !.relay[c].done = @ + 1]
    /\ UNCHANGED <<now, breakerVars, banVars, rl, mw, conns, accepted, calls, life>>

\* done <- struct{}{} and the end of the goroutine
CopySignals(c, d) ==
    /\ tasks.relay[c].copy[d] = "send"
    /\ tasks.relay[c].done < doneCap
    /\ tasks' = [tasks EXCEPT !.relay[c].copy[d] = "exited", !.relay[c].done = @ + 1]
    /\ UNCHANGED <<now, breakerVars, banVars, rl, mw, conns, accepted, calls, life>>

\* <-done, the return of transfer and of the handler, and the deferred
\* targetConn.Close() and clientConn.Close()
TransferReturns(c) ==
    /\ tasks.relay[c].pc = "recv"
    /\ tasks.relay[c].done > 0
    /\ tasks' = [tasks EXCEPT !.relay[c].pc = "closed", !.relay[c].done = @ - 1]
    /\ UNCHANGED <<now, breakerVars, banVars, rl, mw, conns, accepted, calls, life>>

RelayNext ==
    \E c \in 1..MaxConns :
       \/ Transfer(c)
       \/ TransferReturns(c)
       \/ \E d \in Directions : CopyReturns(c, d)
       \/ \E d \in Directions : CopySignals(c, d)

\* The Go scheduler runs every goroutine that can run: the handler receives
\* a signal that is in the channel and a copy goroutine sends its signal;
\* and an io.Copy returns once the socket it reads from has been closed.
SpecRelayFair ==
    /\ ProxyInit
    /\ [][RelayNext]_vars
    /\ \A c \in 1..MaxConns :
          /\ WF_vars(TransferReturns(c))
          /\ \A d \in Directions :
                /\ WF_vars(CopySignals(c, d))
                /\ WF_vars(tasks.relay[c].pc = "closed" /\ CopyReturns(c, d))

(***************************************************************************)
(* Properties of the circuit breaker.                                      *)
(***************************************************************************)

\* The outcome window as section 4.3 defines it: the records newer than
\* t - windowSize, oldest first.
RECURSIVE WindowAt(_, _, _)
WindowAt(reqs, t, size) ==
    IF reqs = << >> THEN << >>
    ELSE IF t - Head(reqs).timestamp < size
         THEN <<Head(reqs)>> \o WindowAt(Tail(reqs), t, size)
         ELSE WindowAt(Tail(reqs), t, size)

FailuresIn(w) == Cardinality({i \in 1..Len(w) : ~w[i].success})

\* C1: from Open with break_duration elapsed, the third of
\* half_open_max_requests consecutive record_success() calls (no failure in
\* between) leaves get_state() = Closed and the half-open counter at 0.
C1_RecoveryCloses ==
    (obs.op = "RecordSuccess" /\ obs.probes = halfOpenMaxRequests)
        => /\ CircuitBreaker_GetState(cb, now) = StateClosed
           /\ cb.consecutiveSuccesses = 0

\* C2: from Open with break_duration elapsed, one record_failure() leaves the
\* breaker Open with last_state_change = now and the half-open counter reset,
\* so that is_open() is true right after the call.
C2_HalfOpenFailureReopens ==
    (obs.op = "RecordFailure" /\ obs.pre.state = StateOpen /\ BreakElapsed(obs.pre, now))
        => /\ cb.state = StateOpen
           /\ cb.lastStateChange = now
           /\ cb.consecutiveSuccesses = 0
           /\ CircuitBreaker_IsOpen(cb, now)

\* C3: a record_failure() in state Closed opens the breaker, stamping
\* last_state_change = now, exactly when the pruned window (the failure just
\* recorded included) holds at least min_requests records and
\* failures*100/total >= failure_threshold_percent; below min_requests
\* records the breaker stays Closed whatever the ratio.
C3_OpenThreshold ==
    (obs.op = "RecordFailure" /\ obs.pre.state = StateClosed)
        => LET w == WindowAt(Append(obs.pre.requests, requestRecord(now, FALSE)),
                             now, cb.windowSize)
               total == Len(w)
               reached == /\ total >= cb.minRequests
                          /\ FailuresIn(w) * 100 >= cb.failureThreshold * total
           IN  /\ reached => (cb.state = StateOpen /\ cb.lastStateChange = now)
               /\ ~reached => (cb.state = StateClosed
                                /\ cb.lastStateChange = obs.pre.lastStateChange)
               /\ total < cb.minRequests => cb.state = StateClosed

\* The breaker opens with the failure ratio exactly at the threshold.
C3_Witness ==
    /\ obs.op = "RecordFailure"
    /\ obs.pre.state = StateClosed
    /\ cb.state = StateOpen
    /\ Len(cb.requests) > cb.minRequests
    /\ FailuresIn(cb.requests) * 100 = cb.failureThreshold * Len(cb.requests)

\* C4: with the stored state Open, is_open() is true iff
\* now - last_state_change < break_duration; once break_duration has elapsed
\* get_state() reports HalfOpen; neither query changes the stored state, the
\* window, the stamp or the counter.
C4_OpenQueriesArePure ==
    /\ (obs.op = "IsOpen" /\ obs.pre.state = StateOpen)
          => /\ obs.ret = (now - obs.pre.lastStateChange < obs.pre.breakDuration)
             /\ cb = obs.pre
    /\ (obs.op = "GetState" /\ obs.pre.state = StateOpen)
          => /\ obs.ret = (IF now - obs.pre.lastStateChange < obs.pre.breakDuration
                            THEN StateOpen ELSE StateHalfOpen)
             /\ cb = obs.pre

\* is_open() answers false at the very tick break_duration has elapsed, the
\* stored state still being Open.
C4_Witness ==
    /\ obs.op = "IsOpen"
    /\ cb.state = StateOpen
    /\ now - cb.lastStateChange = cb.breakDuration
    /\ obs.ret = FALSE

(***************************************************************************)
(* Properties of the ban manager.                                          *)
(***************************************************************************)
NotWhitelisted == IPs \ m.whitelist

\* C5: a non-whitelisted IP that starts with no failures (and no ban in
\* force) is not banned after up to max_failures-1 consecutive
\* record_failure calls, and is banned right after the max_failures-th.
C5_BanThreshold ==
    \A ip \in NotWhitelisted :
        /\ streak[ip].n \in 0..(m.maxFailures - 1)
              => ~IPBanManager_IsBanned(m, ip, now)
        /\ (streak[ip].n = m.maxFailures /\ last = LastOp("RecordFailure", ip))
              => IPBanManager_IsBanned(m, ip, now)

C5_Witness ==
    \E ip \in NotWhitelisted :
        /\ streak[ip].n = m.maxFailures
        /\ last = LastOp("RecordFailure", ip)
        /\ IPBanManager_IsBanned(m, ip, now)

\* C6: a whitelisted IP is never banned, however many record_failure calls
\* are made for it.
C6_WhitelistImmunity ==
    \A ip \in m.whitelist : ~IPBanManager_IsBanned(m, ip, now)

C6_Witness ==
    \E ip \in m.whitelist :
        /\ streak[ip].n > m.maxFailures
        /\ last = LastOp("RecordFailure", ip)
        /\ ~IPBanManager_IsBanned(m, ip, now)

\* C7: a record_success(ip) made while ip has fewer than max_failures
\* failures leaves its failure count at zero; afterwards up to
\* max_failures-1 further failures leave ip not banned, and the
\* max_failures-th bans it.
C7_SuccessResets ==
    \A ip \in NotWhitelisted :
        /\ last = LastOp("RecordSuccess", ip)
              => IPBanManager_GetFailureCount(m, ip) = 0
        /\ (streak[ip].reset /\ streak[ip].n \in 0..(m.maxFailures - 1))
              => ~IPBanManager_IsBanned(m, ip, now)
        /\ (streak[ip].reset /\ streak[ip].n = m.maxFailures
                /\ last = LastOp("RecordFailure", ip))
              => IPBanManager_IsBanned(m, ip, now)

C7_Witness ==
    \E ip \in NotWhitelisted :
        /\ streak[ip].reset
        /\ streak[ip].n = m.maxFailures - 1
        /\ last = LastOp("RecordFailure", ip)
        /\ ~IPBanManager_IsBanned(m, ip, now)

\* C8: a ban fired at time b, with no failure recorded for the IP since, is
\* no longer reported by is_banned once more than ban_duration has passed
\* since b, whether or not the sweeper or unban removed the entry.
C8_BanExpires ==
    \A ip \in NotWhitelisted :
        (streak[ip].firedAt # Untracked /\ now - streak[ip].firedAt > m.banDuration)
            => ~IPBanManager_IsBanned(m, ip, now)

\* The ban has run out while its entry is still in bannedIPs.
C8_Witness ==
    \E ip \in NotWhitelisted :
        /\ streak[ip].firedAt # Untracked
        /\ now - streak[ip].firedAt > m.banDuration
        /\ ip \in DOMAIN m.bannedIPs
        /\ ~IPBanManager_IsBanned(m, ip, now)

(***************************************************************************)
(* Properties of the admission pipeline and of authentication in the two   *)
(* frontends, over SpecProxy.                                              *)
(***************************************************************************)
Handlers == {c \in 1..MaxConns : conns[c].pc # "free"}

AdmissionChecks == <<"circuitBreaker.IsOpen", "ipBan.IsBlocked", "rateLimit.Allow">>

\* The result with which the i-th check turns the connection away, and the
\* status the HTTP frontend answers with.
Rejects(i, ret) == IF i = 3 THEN ~ret ELSE ret

RejectStatus == <<503, 403, 429>>

Accepted(h) ==
    /\ h.creds.present
    /\ h.creds.base64
    /\ h.proto = "http" => h.creds.scheme = "Basic "
    /\ Len(h.creds.fields) = 2
    /\ \E u \in DOMAIN mw.auth.credentials :
          /\ h.creds.fields[1] = u
          /\ h.creds.fields[2] = mw.auth.credentials[u]

Range(seq) == {seq[i] : i \in 1..Len(seq)}

HasCalled(h, ev) == \E i \in 1..Len(h.trace) : h.trace[i].ev = ev

ReadCredentials(h) ==
    \/ h.proto = "http" /\ Event("http.ReadRequest", TRUE) \in Range(h.trace)
    \/ h.proto = "socks5" /\ Event("readAuth", TRUE) \in Range(h.trace)

\* C10: with authentication enabled a handler dials upstream and relays only
\* for credentials that were accepted; a handler that read other credentials
\* (for HTTP also: no Proxy-Authorization header, or one that does not
\* decode) ends closed without dial or relay, the HTTP frontend having
\* written only a 407 with Proxy-Authenticate and the SOCKS5 frontend having
\* written the status pair (0x01, 0x01) last.
C10_NoDialWithoutAuth ==
    mw.auth.enabled =>
       \A c \in Handlers :
          LET h == conns[c]
          IN  /\ (HasCalled(h, "net.DialTimeout") \/ HasCalled(h, "transfer")
                    \/ h.pc \in {"dial", "relay"}) => Accepted(h)
              /\ (ReadCredentials(h) /\ ~Accepted(h) /\ h.pc = "closed") =>
                    IF h.proto = "http"
                    THEN /\ Len(h.sent) = 1
                         /\ h.sent[1].status = 407
                         /\ "Proxy-Authenticate: Basic realm=\"DuDu Proxy\"" \in h.sent[1].headers
                    ELSE /\ Len(h.sent) = 2
                         /\ h.sent[2] = <<1, 1>>

\* An HTTP request without a Proxy-Authorization header has been answered
\* 407, and a SOCKS5 client with a wrong password has been answered (1, 1).
C10_Witness ==
    /\ mw.auth.enabled
    /\ \E c \in Handlers :
          /\ conns[c].proto = "http"
          /\ conns[c].pc = "closed"
          /\ Event("http.ReadRequest", TRUE) \in Range(conns[c].trace)
          /\ ~conns[c].creds.present
          /\ conns[c].sent = <<sendProxyAuthRequired>>
    /\ \E c \in Handlers :
          /\ conns[c].proto = "socks5"
          /\ conns[c].pc = "closed"
          /\ Event("readAuth", TRUE) \in Range(conns[c].trace)
          /\ ~Accepted(conns[c])
          /\ conns[c].sent = <<(<<5, 2>>), (<<1, 1>>)>>

\* The handler in slot c takes a step.
Steps(c) == conns[c].pc \notin {"free", "closed"} /\ conns'[c] # conns[c]

C11_Calls(h) ==
    [ banFailure     |-> HasCalled(h, "ipBan.RecordAuthFailure"),
      breakerFailure |-> HasCalled(h, "circuitBreaker.RecordAuthFailure"),
      banSuccess     |-> HasCalled(h, "ipBan.RecordAuthSuccess"),
      breakerSuccess |-> HasCalled(h, "circuitBreaker.RecordAuthSuccess") ]

\* Where a handler stands once its credentials were judged: a rejected one
\* calls the two record-failure methods and nothing else, an accepted one the
\* two record-success methods.
C11_Paired ==
    \A c \in Handlers :
       LET h == conns[c]
           k == C11_Calls(h)
       IN  /\ h.auth = "none" =>
                ~k.banFailure /\ ~k.breakerFailure /\ ~k.banSuccess /\ ~k.breakerSuccess
           /\ h.auth = "fail" =>
                /\ h.pc \in {"fail_ban", "fail_cb", "closed"}
                /\ k.banFailure <=> h.pc # "fail_ban"
                /\ k.breakerFailure <=> h.pc = "closed"
                /\ ~k.banSuccess /\ ~k.breakerSuccess
           /\ h.auth = "ok" =>
                /\ h.pc \notin {"fail_ban", "fail_cb"}
                /\ k.banSuccess <=> h.pc # "ok_ban"
                /\ k.breakerSuccess <=> h.pc \notin {"ok_ban", "ok_cb"}
                /\ ~k.banFailure /\ ~k.breakerFailure

\* What the two managers see of a step of the server.
C11_Fed ==
    /\ \A c \in 1..MaxConns :
          Steps(c) =>
             LET h == conns[c]
             IN  /\ h.pc = "fail_ban" =>
                       /\ m' = IPBanManager_RecordFailure(m, h.ip, now)
                       /\ cb' = cb
                       /\ conns'[c].pc = "fail_cb"
                 /\ h.pc = "fail_cb" =>
                       /\ cb' = CircuitBreaker_RecordFailure(cb, now)
                       /\ m' = m
                 /\ h.pc = "ok_ban" =>
                       /\ m' = IPBanManager_RecordSuccess(m, h.ip)
                       /\ cb' = cb
                       /\ conns'[c].pc = "ok_cb"
                 /\ h.pc = "ok_cb" =>
                       /\ cb' = CircuitBreaker_RecordSuccess(cb, now)
                       /\ m' = m
                 /\ (h.auth = "none" /\ conns'[c].auth = "fail") => conns'[c].pc = "fail_ban"
                 /\ (h.auth = "none" /\ conns'[c].auth = "ok") => conns'[c].pc = "ok_ban"

\* C11: with both managers enabled, each authentication attempt of either
\* frontend is followed by exactly one pair of calls: a rejected attempt by
\* RecordFailure(ip) of the ban manager and then RecordFailure() of the
\* breaker, an accepted one by RecordSuccess(ip) and then RecordSuccess();
\* the handler does nothing else between the two calls, and no handler feeds
\* one manager without the other.
C11_BothManagersFed ==
    [][(mw.ipBanEnabled /\ mw.breakerEnabled) => (C11_Fed /\ C11_Paired')]_vars

\* One handler was rejected and has fed both managers (the breaker window
\* holds the failure, the ban manager the count), another was accepted and
\* has fed both.
C11_Witness ==
    /\ mw.ipBanEnabled /\ mw.breakerEnabled
    /\ \E c \in Handlers :
          /\ conns[c].auth = "fail"
          /\ conns[c].pc = "closed"
          /\ \E i \in 1..Len(cb.requests) : ~cb.requests[i].success
          /\ IPBanManager_GetFailureCount(m, conns[c].ip) = 1
    /\ \E c \in Handlers :
          /\ conns[c].auth = "ok"
          /\ conns[c].pc \in {"dial", "request"}
          /\ \E i \in 1..Len(cb.requests) : cb.requests[i].success

\* C12: with max_failures = 3 and the ban manager the only filter, once three
\* sequential failed HTTP authentications of an IP have fired its ban, every
\* handler that checks the IP within ban_duration answers 403 Forbidden and
\* closes without reading the request, whatever credentials it carries; and a
\* persistence write that runs within ban_duration leaves exactly one record
\* for the IP in the file, with fail_count = 3 and
\* expires_at = ban time + ban_duration.
C12_BanInForce(ip) ==
    /\ ip \in DOMAIN streak
    /\ streak[ip].n = 3
    /\ streak[ip].firedAt # Untracked
    /\ now - streak[ip].firedAt < m.banDuration

RecordsOf(records, ip) == {i \in 1..Len(records) : records[i].ip = ip}

C12_Forbidden ==
    \A c \in Handlers :
        (/\ conns[c].pc = "ban"
         /\ conns'[c] # conns[c]
         /\ C12_BanInForce(conns[c].ip))
        => /\ conns'[c].pc = "closed"
           /\ conns'[c].sent = <<sendError(StatusForbidden)>>
           /\ ~HasCalled(conns'[c], "http.ReadRequest")
           /\ m' = m

C12_Persisted ==
    \A ip \in ClientIPs :
        (saves' < saves /\ C12_BanInForce(ip))
        => /\ Cardinality(RecordsOf(file', ip)) = 1
           /\ \A i \in RecordsOf(file', ip) :
                 /\ file'[i].failCount = 3
                 /\ file'[i].expiresAt = streak[ip].firedAt + m.banDuration

C12_BanTriggersAndPersists ==
    [][(m.maxFailures = 3 /\ ~mw.breakerEnabled /\ ~mw.rateEnabled)
          => (C12_Forbidden /\ C12_Persisted)]_vars

C12_Witness ==
    \E c \in Handlers :
        /\ C12_BanInForce(conns[c].ip)
        /\ conns[c].pc = "closed"
        /\ conns[c].sent = <<sendError(StatusForbidden)>>
        /\ saves = 0
        /\ Cardinality(RecordsOf(file, conns[c].ip)) = 1
        /\ \A i \in RecordsOf(file, conns[c].ip) : file[i].failCount = 3

\* C13: a file written by saveToFile, loaded at a time t by a fresh manager
\* of the same configuration, restores exactly the bans that have not
\* expired at t, with their expiry and their ban fail count; it restores the
\* failure count of every IP that had no unexpired ban when the file was
\* written; the failure count of an IP written as banned is not in the file;
\* and a written ban that has expired at t restores no ban but restores its
\* fail count as the failure count of the IP.
C13_Loaded(records, t) ==
    NewIPBanManager([maxFailures |-> m.maxFailures, banDuration |-> m.banDuration,
                     whitelist |-> m.whitelist], records, t)

\* The load times considered: the file is read no earlier than it is written.
C13_LoadTimes == now..MaxTime

\* The bans of m that have not expired at t (now.Before(expiry)).
C13_Live(t) == {ip \in DOMAIN m.bannedIPs : t < m.bannedIPs[ip]}

\* The bans written at the time of the save that have expired at t, with a
\* fail count to restore.
C13_Lapsed(t) ==
    {ip \in C13_Live(now) \ C13_Live(t) : MapGet(m.bannedFailCount, ip) > 0}

C13_SameBans(l, t) ==
    /\ l.bannedIPs = [ip \in C13_Live(t) |-> m.bannedIPs[ip]]
    /\ l.bannedFailCount =
          [ip \in {x \in C13_Live(t) : MapGet(m.bannedFailCount, x) > 0}
              |-> m.bannedFailCount[ip]]

C13_CountsAsLoaded(l, t) ==
    l.failureCounts =
       [ip \in C13_Lapsed(t) \cup (DOMAIN m.failureCounts \ C13_Live(now))
           |-> IF ip \in C13_Lapsed(t) THEN m.bannedFailCount[ip]
               ELSE m.failureCounts[ip]]

C13_RoundTrip ==
    [][saves' < saves
          => \A t \in C13_LoadTimes :
                /\ C13_SameBans(C13_Loaded(file', t), t)
                /\ C13_CountsAsLoaded(C13_Loaded(file', t), t)]_vars

\* C13 as stated: the same banned set, the same failure count for the IPs
\* without a ban, and an entry whose ban has expired by load time restores
\* neither a ban nor a failure count.
C13_ExpiredDropped(l, t) ==
    \A ip \in DOMAIN m.bannedIPs \ C13_Live(t) :
        /\ ip \notin DOMAIN l.bannedIPs
        /\ ip \notin DOMAIN m.failureCounts => ip \notin DOMAIN l.failureCounts

C13_AsStated ==
    [][saves' < saves
          => \A t \in C13_LoadTimes :
                /\ DOMAIN C13_Loaded(file', t).bannedIPs = C13_Live(t)
                /\ \A ip \in DOMAIN m.failureCounts \ DOMAIN m.bannedIPs :
                      MapGet(C13_Loaded(file', t).failureCounts, ip) = m.failureCounts[ip]
                /\ C13_ExpiredDropped(C13_Loaded(file', t), t)]_vars

\* A file just written that holds a ban and a failure count, read at a time
\* when the ban has expired.
C13_Witness ==
    /\ last.op = "saveToFile"
    /\ \E i, j \in 1..Len(file) :
          /\ file[i].expiresAt # ZeroTime /\ now < file[i].expiresAt
          /\ file[j].expiresAt = ZeroTime /\ file[j].failCount > 0
          /\ \E t \in C13_LoadTimes :
                /\ file[i].expiresAt <= t
                /\ file[i].ip \notin DOMAIN C13_Loaded(file, t).bannedIPs
                /\ MapGet(C13_Loaded(file, t).failureCounts, file[i].ip) = file[i].failCount
                /\ MapGet(C13_Loaded(file, t).failureCounts, file[j].ip) = file[j].failCount

\* C14: Call returns ErrCircuitBreakerOpen when GetState gives Open, without
\* invoking fn and without touching the breaker; otherwise it invokes fn
\* once, appends one record of fn's outcome through RecordFailure or
\* RecordSuccess, and returns fn's error, or nil when fn returned none.
C14_Gate ==
    (call.pc = "idle" /\ call' # call)
    => /\ cb' = cb
       /\ call'.invoked = 0
       /\ IF CircuitBreaker_GetState(cb, now) = StateOpen
          THEN call'.pc = "idle" /\ call'.ret = "ErrCircuitBreakerOpen"
          ELSE call'.pc \in {"transition", "fn"} /\ call'.ret = ""

C14_Invoke ==
    /\ (call.pc = "transition" /\ call' # call)
          => /\ call'.pc = "fn"
             /\ call'.invoked = 0
             /\ cb'.requests = cb.requests
    /\ (call.pc = "fn" /\ call' # call)
          => /\ call'.pc = "record"
             /\ call'.invoked = 1
             /\ cb' = cb

C14_Outcome ==
    (call.pc = "record" /\ call' # call)
    => /\ call'.pc = "idle"
       /\ call'.invoked = 1
       /\ call'.ret = (IF call.err THEN "err" ELSE "nil")
       /\ cb'.requests =
             cleanup([cb EXCEPT !.requests =
                         Append(@, requestRecord(now, ~call.err))], now).requests
       /\ cb'.requests # << >>
       /\ cb'.requests[Len(cb'.requests)] = requestRecord(now, ~call.err)
       /\ cb' = (IF call.err THEN CircuitBreaker_RecordFailure(cb, now)
                             ELSE CircuitBreaker_RecordSuccess(cb, now))

\* Between the steps of Call only the other goroutines' records change the
\* window, and a returned Call has invoked fn once or not at all.
C14_Returned ==
    call'.pc = "idle"
    => \/ call'.ret = "" /\ call'.invoked = 0
       \/ call'.ret = "ErrCircuitBreakerOpen" /\ call'.invoked = 0
       \/ call'.ret = "err" /\ call'.invoked = 1 /\ call'.err
       \/ call'.ret = "nil" /\ call'.invoked = 1 /\ ~call'.err

C14_Call == [][C14_Gate /\ C14_Invoke /\ C14_Outcome /\ C14_Returned]_vars

\* A call rejected by the open breaker, and a call that has returned the
\* error of fn through a half-open breaker.
C14_WitnessOpen ==
    /\ call.pc = "idle"
    /\ call.ret = "ErrCircuitBreakerOpen"
    /\ obs.op = "CallGetState"
    /\ cb.requests # << >>

C14_Witness ==
    /\ call.pc = "idle"
    /\ call.ret = "err"
    /\ call.currentState = StateHalfOpen
    /\ obs.op = "RecordFailure"
    /\ cb.requests # << >>
    /\ cb.requests[Len(cb.requests)] = requestRecord(now, FALSE)

\* C15: every outbound dial (HTTP CONNECT, HTTP forward, SOCKS5 CONNECT) is
\* made on the configured network, so the connection it returns is of a
\* family of that network; and under network tcp4 a SOCKS5 request for an
\* IPv6 target is not connected, is not relayed and is answered with a
\* failure reply.
Dialed(h) == h.dial.network # ""

\* The replies of RFC 1928 other than success.
FailureReplies ==
    {sendReply(rep) : rep \in repServerFailure..repAddressNotSupported}

C15_ConfiguredNetwork ==
    \A c \in Handlers :
        Dialed(conns[c])
        => /\ conns[c].dial.network = mw.network
           /\ conns[c].dial.remote \in {0} \cup NetworkFamilies(mw.network)
           /\ (mw.network = "tcp4" /\ conns[c].proto = "socks5"
                  /\ conns[c].atyp = atypIPv6)
              => /\ conns[c].dial.remote = 0
                 /\ conns[c].pc = "closed"
                 /\ ~HasCalled(conns[c], "transfer")
                 /\ conns[c].sent[Len(conns[c].sent)] \in FailureReplies

\* C16: the dial target of a SOCKS5 request is "[host]:port" for an address
\* of type 0x04 and "host:port" for an IPv4 address or a domain name.
C16_BracketedTarget ==
    \A c \in Handlers :
        (conns[c].proto = "socks5" /\ Dialed(conns[c]))
        => conns[c].dial.address =
              (IF conns[c].atyp = atypIPv6
               THEN <<"[">> \o conns[c].host \o <<"]", ":">> \o FormatUint(conns[c].port, 10)
               ELSE conns[c].host \o <<":">> \o FormatUint(conns[c].port, 10))

\* C17: a handler has written its success response (200 Connection
\* Established, SOCKS5 reply 0x00) only if its dial returned a connection; it
\* relays only after a dial that returned a connection and, on a CONNECT of
\* either frontend, after the success response; a handler whose dial failed
\* has written no success response and does not relay.
SuccessResponse(h) ==
    IF h.proto = "http" THEN ConnectionEstablished ELSE sendReply(repSuccess)

Tunnels(h) == h.proto = "socks5" \/ h.method = "CONNECT"

Relays(h) == h.pc = "relay" \/ HasCalled(h, "transfer")

C17_Handler(h) ==
    /\ SuccessResponse(h) \in Range(h.sent)
          => /\ h.dial.remote # 0
             /\ Event("net.DialTimeout", TRUE) \in Range(h.trace)
             /\ h.sent[Len(h.sent)] = SuccessResponse(h)
    /\ Relays(h)
          => /\ h.dial.remote # 0
             /\ Event("net.DialTimeout", TRUE) \in Range(h.trace)
             /\ Tunnels(h) => SuccessResponse(h) \in Range(h.sent)
    /\ (Dialed(h) /\ h.dial.remote = 0)
          => /\ SuccessResponse(h) \notin Range(h.sent)
             /\ ~Relays(h)
             /\ h.pc = "closed"

\* The step that starts the relay, or writes the success response, is the
\* step of the dial.
C17_Step ==
    \A c \in 1..MaxConns :
        (/\ conns[c].pc # "free"
         /\ \/ conns'[c].pc = "relay" /\ conns[c].pc # "relay"
            \/ /\ SuccessResponse(conns'[c]) \in Range(conns'[c].sent)
               /\ SuccessResponse(conns[c]) \notin Range(conns[c].sent))
        => /\ conns[c].pc = "dial"
           /\ ~Dialed(conns[c])
           /\ conns'[c].dial.remote # 0

C17_SuccessAfterDial ==
    [][C17_Step /\ \A c \in 1..MaxConns :
                      conns'[c].pc # "free" => C17_Handler(conns'[c])]_vars

\* Both frontends with a finished relay, and a handler whose dial failed.
C17_Witness ==
    \E c, d \in Handlers :
        /\ conns[c].proto = "socks5"
        /\ conns[c].pc = "closed"
        /\ HasCalled(conns[c], "transfer")
        /\ conns[c].atyp = atypDomain
        /\ conns[d].proto = "http"
        /\ conns[d].method = "CONNECT"
        /\ conns[d].pc = "relay"
        /\ ConnectionEstablished \in Range(conns[d].sent)

\* C18: the step of a dial changes neither the breaker nor the ban manager
\* nor the pending saves; a dial that failed is answered with 502 Bad Gateway
\* on HTTP and with a reply of code 0x04 or 0x01 on SOCKS5, and the handler
\* ends; and the breaker's window changes only in the step that follows the
\* judgement of credentials.
C18_DialStep ==
    \A c \in 1..MaxConns :
        (conns[c].pc = "dial" /\ conns'[c] # conns[c])
        => /\ cb' = cb
           /\ m' = m
           /\ saves' = saves
           /\ file' = file
           /\ Dialed(conns'[c])
           /\ conns'[c].dial.remote = 0
                 => /\ conns'[c].pc = "closed"
                    /\ conns'[c].sent # << >>
                    /\ Len(conns'[c].sent) = Len(conns[c].sent) + 1
                    /\ conns'[c].sent[Len(conns'[c].sent)] \in
                          (IF conns[c].proto = "http"
                           THEN {sendError(StatusBadGateway)}
                           ELSE {sendReply(repHostUnreachable),
                                 sendReply(repServerFailure)})

C18_OnlyAuthFeedsBreaker ==
    cb' # cb
    => \E c \in 1..MaxConns :
          /\ conns[c].pc \in {"fail_cb", "ok_cb"}
          /\ conns'[c] # conns[c]
          /\ conns[c].auth \in {"fail", "ok"}

C18_DialFailure == [][C18_DialStep /\ C18_OnlyAuthFeedsBreaker]_vars

\* A failed dial on each frontend, with the breaker holding the records of
\* the two authentications that preceded them.
C18_Witness ==
    \E c, d \in Handlers :
        /\ conns[c].proto = "http"
        /\ conns[d].proto = "socks5"
        /\ \A h \in {conns[c], conns[d]} :
              /\ h.pc = "closed"
              /\ Dialed(h)
              /\ h.dial.remote = 0
              /\ h.auth = "ok"
        /\ conns[c].sent = <<sendError(StatusBadGateway)>>
        /\ conns[d].sent[Len(conns[d].sent)] = sendReply(repHostUnreachable)
        /\ Len(cb.requests) = 2
        /\ \A i \in 1..Len(cb.requests) : cb.requests[i].success

\* C19: a SOCKS5 handler that has read a greeting answers (0x05, 0x02) iff
\* authentication is enabled and the list holds 0x02, (0x05, 0x00) iff
\* authentication is disabled and the list holds 0x00, and otherwise
\* (0x05, 0xFF), after which it is closed having read neither a
\* sub-negotiation nor a request and having written nothing else.
Greeted(h) == h.proto = "socks5" /\ Event("readGreeting", TRUE) \in Range(h.trace)

Offers(h, method) == \E i \in 1..Len(h.offered) : h.offered[i] = method

C19_Handler(h) ==
    /\ h.sent # << >>
    /\ h.sent[1] \in {<<socks5Version, authPassword>>, <<socks5Version, authNone>>,
                      <<socks5Version, authNoAccept>>}
    /\ h.sent[1] = <<socks5Version, authPassword>>
          <=> (mw.auth.enabled /\ Offers(h, authPassword))
    /\ h.sent[1] = <<socks5Version, authNone>>
          <=> (~mw.auth.enabled /\ Offers(h, authNone))
    /\ h.sent[1] = <<socks5Version, authNoAccept>>
          => /\ h.pc = "closed"
             /\ h.sent = <<<<socks5Version, authNoAccept>>>>
             /\ ~HasCalled(h, "readAuth")
             /\ ~HasCalled(h, "readRequest")
             /\ ~HasCalled(h, "auth")
             /\ h.auth = "none"
             /\ ~Dialed(h)
    /\ h.sent[1] = <<socks5Version, authNone>> => ~HasCalled(h, "readAuth")
    /\ (h.sent[1] = <<socks5Version, authPassword>> /\ HasCalled(h, "readRequest"))
          => HasCalled(h, "readAuth")

C19_MethodSelection ==
    \A c \in Handlers : Greeted(conns[c]) => C19_Handler(conns[c])

\* Without authentication: a client offering 0x00 and 0x02 is past the
\* handshake on method 0x00, a client offering only 0x02 was refused.
C19_Witness ==
    /\ ~mw.auth.enabled
    /\ \E c, d \in Handlers :
          /\ Greeted(conns[c])
          /\ conns[c].offered = <<authNone, authPassword>>
          /\ conns[c].sent[1] = <<socks5Version, authNone>>
          /\ conns[c].pc = "dial"
          /\ Greeted(conns[d])
          /\ conns[d].offered = <<authPassword>>
          /\ conns[d].sent = <<<<socks5Version, authNoAccept>>>>
          /\ conns[d].pc = "closed"

\* With authentication: a client offering only 0x00 was refused, a client
\* offering 0x00 and 0x02 is in the sub-negotiation.
C19_WitnessAuthEnabled ==
    /\ mw.auth.enabled
    /\ \E c, d \in Handlers :
          /\ Greeted(conns[c])
          /\ conns[c].offered = <<authNone, authPassword>>
          /\ conns[c].sent = <<<<socks5Version, authPassword>>>>
          /\ conns[c].pc = "subneg"
          /\ Greeted(conns[d])
          /\ conns[d].offered = <<authNone>>
          /\ conns[d].sent = <<<<socks5Version, authNoAccept>>>>

\* C20: while no time has passed since the first call for an IP, a call of
\* Allow(ip) that finds a token in the global bucket (or no global bucket)
\* returns true if fewer than 2 * per_ip_rps calls were made for the IP
\* before it and false otherwise, whatever was called for the other IPs.
C20_GlobalAvailable == rl.hasGlobal => LimiterAllows(rl.globalLimiter, now)

C20_Step ==
    \A ip \in ClientIPs :
        (/\ calls'[ip].n = calls[ip].n + 1
         /\ rl.enabled
         /\ calls[ip].n = 0 \/ calls[ip].first = now
         /\ C20_GlobalAvailable)
        => /\ calls'[ip].ok <=> calls[ip].n < 2 * rl.perIPLimit
           /\ \A other \in ClientIPs \ {ip} : calls'[other] = calls[other]

C20_PerIPBurst == [][C20_Step]_vars

\* One IP refused at its call 2 * per_ip_rps + 1, the other allowed at the
\* same instant, with tokens left in the global bucket.
C20_Witness ==
    \E ip, other \in ClientIPs :
        /\ rl.enabled /\ rl.hasGlobal /\ rl.perIPLimit >= 1
        /\ calls[ip].n = 2 * rl.perIPLimit + 1
        /\ calls[ip].first = now
        /\ ~calls[ip].ok
        /\ other # ip
        /\ calls[other].n = 1
        /\ calls[other].first = now
        /\ calls[other].ok
        /\ LimiterAllows(rl.globalLimiter, now)

\* C21: a call of Allow(A) leaves the per-IP bucket of every other IP B as it
\* was: it creates none, removes none, and B's bucket holds the same tokens
\* at every time, whether or not A's bucket is exhausted.
C21_Step ==
    \A ip \in ClientIPs :
        calls'[ip].n = calls[ip].n + 1
        => \A other \in ClientIPs \ {ip} :
              /\ other \in DOMAIN rl'.perIPLimiters <=> other \in DOMAIN rl.perIPLimiters
              /\ other \in DOMAIN rl.perIPLimiters
                    => /\ rl'.perIPLimiters[other] = rl.perIPLimiters[other]
                       /\ \A t \in now..MaxTime :
                             TokensAt(rl'.perIPLimiters[other], t)
                                = TokensAt(rl.perIPLimiters[other], t)

C21_BucketsIsolated == [][C21_Step]_vars

\* A's bucket is empty and A was refused, while B's bucket, used once at the
\* same instant, holds all its tokens but one.
C21_Witness ==
    \E ip, other \in ClientIPs :
        /\ ip # other
        /\ rl.enabled /\ rl.perIPLimit >= 1
        /\ {ip, other} \subseteq DOMAIN rl.perIPLimiters
        /\ ~calls[ip].ok
        /\ calls[ip].n > rl.perIPBurst
        /\ TokensAt(rl.perIPLimiters[ip], now) = 0
        /\ calls[other].n = 1 /\ calls[other].ok
        /\ calls[other].first = now
        /\ TokensAt(rl.perIPLimiters[other], now) = rl.perIPBurst - 1

\* C23: UnbanIP(ip) removes ip from failureCounts, bannedIPs and
\* bannedFailCount, leaves the other IPs' entries alone and spawns one
\* saveToFile, so that IsBanned(ip) is false right after it; and from then
\* on max_failures - 1 failures leave ip not banned, with exactly these
\* failures counted, and the max_failures-th bans it.
C23_UnbanStep ==
    \A ip \in IPs :
        (last' = LastOp("UnbanIP", ip) /\ saves' = saves + 1)
        => /\ ip \notin DOMAIN m'.failureCounts
           /\ ip \notin DOMAIN m'.bannedIPs
           /\ ip \notin DOMAIN m'.bannedFailCount
           /\ \A other \in IPs \ {ip} :
                 /\ MapGet(m'.failureCounts, other) = MapGet(m.failureCounts, other)
                 /\ MapGet(m'.bannedFailCount, other) = MapGet(m.bannedFailCount, other)
                 /\ other \in DOMAIN m'.bannedIPs <=> other \in DOMAIN m.bannedIPs
                 /\ other \in DOMAIN m.bannedIPs
                       => m'.bannedIPs[other] = m.bannedIPs[other]
           /\ ~IPBanManager_IsBanned(m', ip, now')
           /\ streak'[ip].n = 0

C23_Scheduled ==
    \A ip \in IPs : (last' = LastOp("UnbanIP", ip) /\ last' # last) => saves' = saves + 1

C23_FreshFailures ==
    \A ip \in NotWhitelisted :
        streak[ip].unbanned
        => /\ streak[ip].n \in 0..(m.maxFailures - 1)
                 => /\ ~IPBanManager_IsBanned(m, ip, now)
                    /\ IPBanManager_GetFailureCount(m, ip) = streak[ip].n
           /\ (streak[ip].n = m.maxFailures /\ last = LastOp("RecordFailure", ip))
                 => IPBanManager_IsBanned(m, ip, now)

C23_Unban == [][C23_UnbanStep /\ C23_Scheduled /\ C23_FreshFailures']_vars

\* A banned IP was unbanned and has since failed max_failures - 1 times.
C23_Witness ==
    \E ip \in NotWhitelisted :
        /\ streak[ip].unbanned
        /\ streak[ip].n = m.maxFailures - 1
        /\ last = LastOp("RecordFailure", ip)
        /\ ~IPBanManager_IsBanned(m, ip, now)
        /\ \E i \in 1..Len(file) : file[i].ip = ip /\ file[i].expiresAt > now

\* C24: in every reachable state of the ban manager, whatever the
\* interleaving of RecordFailure, RecordSuccess, UnbanIP and the sweep, no
\* IP is a key of both failureCounts and bannedIPs.
C24_CountXorBan ==
    \A ip \in IPs : ~(ip \in DOMAIN m.failureCounts /\ ip \in DOMAIN m.bannedIPs)

\* C25: IsBanned(ip) is false for a whitelisted IP; for any other IP it is
\* true exactly when bannedIPs has an entry for ip whose expiry is strictly
\* later than the current time, so at now = expiry the IP is not banned.
C25_IsBanned ==
    \A ip \in IPs :
        IPBanManager_IsBanned(m, ip, now)
            <=> /\ ip \notin m.whitelist
                /\ ip \in DOMAIN m.bannedIPs
                /\ m.bannedIPs[ip] > now

\* C26: in every reachable state, the state right after NewIPBanManager
\* has loaded the file included, a whitelisted IP is a key of none of
\* failureCounts, bannedIPs and bannedFailCount.
C26_WhitelistAbsent ==
    \A ip \in m.whitelist :
        /\ ip \notin DOMAIN m.failureCounts
        /\ ip \notin DOMAIN m.bannedIPs
        /\ ip \notin DOMAIN m.bannedFailCount

\* C30: a sweep removes from bannedIPs exactly the entries whose expiry is
\* at or before the current time, keeps the entries with a later expiry
\* and every failure count as they are, and spawns a saveToFile if and only
\* if it removed an entry.
C30_Due == {ip \in DOMAIN m.bannedIPs : m.bannedIPs[ip] <= now}

C30_Step ==
    last' = LastOp("Sweep", "")
    => /\ DOMAIN m'.bannedIPs = DOMAIN m.bannedIPs \ C30_Due
       /\ \A ip \in DOMAIN m'.bannedIPs : m'.bannedIPs[ip] = m.bannedIPs[ip]
       /\ m'.failureCounts = m.failureCounts
       /\ saves' = IF C30_Due # {} THEN saves + 1 ELSE saves

C30_SweepRemovesDue == [][C30_Step]_vars

\* C27: every operation that changes the maps (a RecordFailure that counts
\* a failure or fires a ban, a RecordSuccess that clears a count, UnbanIP, a
\* sweep that removes entries) spawns a saveToFile, so that whenever no
\* spawned saveToFile is still to run the file holds the bans in force,
\* with their expiry, and the failure counts of the IPs without one.
C27_WriteFollows == m' # m => saves' = saves + 1

C27_FileCurrent ==
    saves = 0
    => /\ \A ip \in C13_Live(now) :
             \E i \in RecordsOf(file, ip) : file[i].expiresAt = m.bannedIPs[ip]
       /\ \A i \in 1..Len(file) :
             file[i].expiresAt > now
             => /\ file[i].ip \in C13_Live(now)
                /\ file[i].expiresAt = m.bannedIPs[file[i].ip]
       /\ \A ip \in DOMAIN m.failureCounts \ C13_Live(now) :
             \E i \in RecordsOf(file, ip) :
                /\ file[i].failCount = m.failureCounts[ip]
                /\ file[i].expiresAt <= now

C27_EveryChangePersisted == [][C27_WriteFollows /\ C27_FileCurrent']_vars

\* C22: once the signal has been received and shutdown has begun, neither
\* listener accepts a connection: no Accept returns and no handler is
\* started in a free slot from then on.
C22_Step ==
    life.phase # "running"
    => /\ accepted' = accepted
       /\ \A c \in 1..MaxConns :
             conns[c].pc \in {"free", "closed"} => conns'[c].pc \in {"free", "closed"}

C22_NoAcceptAfterSignal == [][C22_Step]_vars

\* C28: m.mu is never held during file I/O: no saveToFile is at MkdirAll
\* or WriteFile with its read lock taken, so a handler that is about to
\* call RecordFailure or RecordSuccess for an IP the manager tracks is
\* never kept waiting for the lock by a write in progress.
C28_InFileIO == {s \in Savers : life[s] \in {"MkdirAll", "WriteFile"}}

C28_AboutToWrite ==
    {c \in 1..MaxConns : /\ conns[c].pc \in {"fail_ban", "ok_ban"}
                         /\ mw.ipBanEnabled
                         /\ conns[c].ip \notin m.whitelist}

C28_NoLockDuringIO ==
    /\ C28_InFileIO # {} => ~RLocked
    /\ \A c \in C28_AboutToWrite :
          C28_InFileIO # {}
          => \/ ENABLED HTTPAuthFailBan(c)
             \/ ENABLED HTTPAuthOKBan(c)
             \/ ENABLED SOCKS5AuthFailBan(c)
             \/ ENABLED SOCKS5AuthOKBan(c)

\* C29: Stop makes the sweeper terminate and writes the file itself: once
\* the sweeper has taken the stopCleanup case it removes no entry any more
\* and stays returned; the step with which Stop returns is the end of a
\* saveToFile run by Stop, which leaves in the file the records of the
\* manager as it is at that moment (those not expired when saveToFile read
\* the clock); and once Stop has been called the
\* sweeper eventually returns and Stop eventually returns.
C29_SweeperStopped ==
    life.sweeper = "returned"
    => /\ life'.sweeper = "returned"
       /\ DOMAIN m.bannedIPs \subseteq DOMAIN m'.bannedIPs

C29_StopReturns ==
    (life.phase = "Stop" /\ life'.phase # "Stop")
    => /\ life'.phase = "wait"
       /\ life.stop = "WriteFile" /\ life'.stop = "idle"
       /\ \E t \in 0..now' : file' \in saveToFile(m', t)

C31_PerIPBefore(ip) ==
    IF ip \in DOMAIN rl.perIPLimiters THEN TokensAt(rl.perIPLimiters[ip], now)
    ELSE rl.perIPBurst

C31_Step ==
    \A ip \in ClientIPs :
        (calls'[ip].n = calls[ip].n + 1 /\ rl.enabled /\ rl.hasGlobal)
        => IF TokensAt(rl.globalLimiter, now) < 1
           THEN /\ ~calls'[ip].ok
                /\ rl' = rl
           ELSE /\ TokensAt(rl'.globalLimiter, now) = TokensAt(rl.globalLimiter, now) - 1
                /\ calls'[ip].ok <=> C31_PerIPBefore(ip) >= 1
                /\ ip \in DOMAIN rl'.perIPLimiters
                /\ TokensAt(rl'.perIPLimiters[ip], now) =
                      C31_PerIPBefore(ip) - (IF calls'[ip].ok THEN 1 ELSE 0)

C31_GlobalFirst == [][C31_Step]_vars

\* A call refused by the per-IP bucket has taken a token from the global
\* bucket: three calls for one IP at time 0 with a per-IP burst of 2.
C31_Witness ==
    \E ip \in ClientIPs :
        /\ rl.enabled /\ rl.hasGlobal
        /\ now = 0
        /\ ~calls[ip].ok
        /\ calls[ip].n = rl.perIPBurst + 1
        /\ \A other \in ClientIPs \ {ip} : calls[other].n = 0
        /\ TokensAt(rl.perIPLimiters[ip], now) = 0
        /\ TokensAt(rl.globalLimiter, now) = rl.globalLimiter.burst - calls[ip].n

\* C32: however the steps of concurrent Allow calls interleave, at most one
\* limiter is ever made for an IP, every caller about to consume for that
\* IP holds the limiter that is in the map, and a limiter once in the map
\* is neither removed nor replaced by another.
C32_OneLimiter ==
    /\ \A ip \in ClientIPs :
          /\ tasks.made[ip] <= 1
          /\ tasks.made[ip] = 1 <=> ip \in DOMAIN rl.perIPLimiters
    /\ \A g \in 1..MaxConns :
          Caller(g).pc = "Allow"
          => /\ Caller(g).ip \in DOMAIN rl.perIPLimiters
             /\ Caller(g).limiter = tasks.made[Caller(g).ip]

C32_Retained ==
    \A ip \in DOMAIN rl.perIPLimiters :
        /\ ip \in DOMAIN rl'.perIPLimiters
        /\ tasks'.made[ip] = tasks.made[ip]

C32_OneBucketPerIP == [][C32_Retained /\ C32_OneLimiter']_vars

\* Two callers for the same IP both found no limiter under the read lock;
\* one has inserted the limiter and the other, past its double check, is
\* about to consume from that same limiter.
C32_Witness ==
    \E g \in 1..MaxConns :
       \E h \in (1..MaxConns) \ {g} :
          /\ Caller(g).pc = "Allow" /\ Caller(h).pc = "Allow"
          /\ Caller(g).ip = Caller(h).ip
          /\ Caller(g).limiter = 1 /\ Caller(h).limiter = 1
          /\ calls[Caller(g).ip].n = 2
          /\ TokensAt(rl.perIPLimiters[Caller(g).ip], now) = rl.perIPBurst

\* C33: transfer returns on the first signal: the handler leaves <-done
\* only with a signal of a copy goroutine whose io.Copy has returned, and
\* once a signal is in the channel it does return; a copy goroutine that
\* has its signal to send can always send it at once, since the channel is
\* never full then; and once the handler has returned and closed both
\* sockets, both copy goroutines eventually exit.
C33_SendNeverBlocks ==
    \A c \in 1..MaxConns :
       \A d \in Directions :
          tasks.relay[c].copy[d] = "send" => ENABLED CopySignals(c, d)

C33_ReturnsOnSignal ==
    \A c \in 1..MaxConns :
        (tasks.relay[c].pc = "recv" /\ tasks'.relay[c].pc # "recv")
        => /\ tasks'.relay[c].pc = "closed"
           /\ \E d \in Directions : tasks.relay[c].copy[d] = "exited"

C33_RelayEnds ==
    /\ [][C33_ReturnsOnSignal /\ C33_SendNeverBlocks']_vars
    /\ \A c \in 1..MaxConns :
          /\ (tasks.relay[c].pc = "recv" /\ tasks.relay[c].done > 0)
                ~> (tasks.relay[c].pc = "closed")
          /\ (tasks.relay[c].pc = "closed")
                ~> (\A d \in Directions : tasks.relay[c].copy[d] = "exited")

\* The handler has returned on the signal of one direction while the other
\* direction was still copying; that one has since sent its signal too,
\* which stays in the channel, and has exited.
C33_Witness ==
    \E c \in 1..MaxConns :
        /\ tasks.relay[c].pc = "closed"
        /\ tasks.relay[c].done = 1
        /\ \A d \in Directions : tasks.relay[c].copy[d] = "exited"

\* C34: right after every RecordSuccess and RecordFailure the window holds
\* no record with timestamp <= now - windowSize and holds, in their order,
\* every earlier record with timestamp > now - windowSize followed by the
\* record just appended.
C34_Recent(r) == r.timestamp > now - cb.windowSize

C34_Step ==
    obs'.op \in {"RecordSuccess", "RecordFailure"}
    => /\ \A i \in 1..Len(cb'.requests) :
             cb'.requests[i].timestamp > now' - cb'.windowSize
       /\ cb'.requests = Append(SelectSeq(cb.requests, C34_Recent),
                                requestRecord(now, obs'.op = "RecordSuccess"))

C34_EagerPruning == [][C34_Step]_vars

\* A RecordFailure or RecordSuccess has dropped a record that was exactly
\* windowSize old and kept a younger one.
C34_Witness ==
    /\ obs.op \in {"RecordSuccess", "RecordFailure"}
    /\ \E i \in 1..Len(obs.pre.requests) :
          obs.pre.requests[i].timestamp = now - cb.windowSize
    /\ \E i \in 1..Len(obs.pre.requests) :
          obs.pre.requests[i].timestamp > now - cb.windowSize
    /\ Len(cb.requests) >= 2
    /\ Len(cb.requests) < Len(obs.pre.requests) + 1
    /\ cb.requests[Len(cb.requests)].timestamp = now

\* C35: the breaker always re-arms: once only failures are recorded and at
\* least min_requests of them lie within one window_size, is_open() returns
\* true.  Stated on the state right after a record_failure(): if the window
\* then holds at least min_requests records and all of them are failures,
\* is_open() is true.
C35_OnlyFailures(c) ==
    /\ Len(c.requests) >= c.minRequests
    /\ \A i \in 1..Len(c.requests) : ~c.requests[i].success

C35_Rearms ==
    (obs.op = "RecordFailure" /\ C35_OnlyFailures(cb))
        => CircuitBreaker_IsOpen(cb, now)

\* C36: at the moment either frontend starts an upstream dial for a
\* connection from ip, is_banned(ip) is false, under any interleaving of
\* concurrent connections from the same IP.
C36_Dials(c) == conns[c].pc = "dial" /\ conns'[c].pc # "dial"

C36_NoDialWhileBanned ==
    [][\A c \in 1..MaxConns :
          (mw.ipBanEnabled /\ C36_Dials(c))
              => ~IPBanManager_IsBanned(m, conns[c].ip, now)]_vars

\* C36 as amended: is_banned(ip) is false at the moment a connection from ip
\* passes the ban check of the admission pipeline, and every connection that
\* starts a dial has passed that check; the check is not repeated, so a ban
\* fired in between by another connection of the same IP does not stop the
\* dial.
C36_PassesBanCheck(c) ==
    conns[c].pc = "ban" /\ conns'[c].pc \notin {"ban", "closed"}

C36_Step ==
    \A c \in 1..MaxConns :
        /\ (mw.ipBanEnabled /\ C36_PassesBanCheck(c))
               => ~IPBanManager_IsBanned(m, conns[c].ip, now)
        /\ C36_Dials(c)
               => \E i \in 1..Len(conns[c].trace) :
                     conns[c].trace[i] = Event("ipBan.IsBlocked", FALSE)

C36_BanCheckedAtAdmission == [][C36_Step]_vars

C36_Witness ==
    \E c \in 1..MaxConns :
        /\ mw.ipBanEnabled
        /\ conns[c].pc = "dial"
        /\ conns[c].auth = "ok"
        /\ IPBanManager_IsBanned(m, conns[c].ip, now)
        /\ \E i \in 1..Len(conns[c].trace) :
              conns[c].trace[i] = Event("ipBan.IsBlocked", FALSE)

\* C37: in every reachable ban-tracker state, the state right after loading
\* the persistence file included, every value in failure_counts lies between
\* 1 and max_failures-1.
C37_CountsBelowThreshold ==
    \A ip \in DOMAIN m.failureCounts :
        m.failureCounts[ip] \in 1..(m.maxFailures - 1)

\* C37 as amended: every value in failure_counts is at least 1, and no
\* operation writes a value of max_failures or more: a value at or above the
\* threshold is one that loading the file restored (the fail_count of a
\* record that restores no ban) and that no call has touched since.
C37_Step ==
    \A ip \in DOMAIN m'.failureCounts :
        /\ m'.failureCounts[ip] >= 1
        /\ m'.failureCounts[ip] >= m'.maxFailures
               => /\ ip \in DOMAIN m.failureCounts
                  /\ m.failureCounts[ip] = m'.failureCounts[ip]

C37_CountsWrittenBelowThreshold == [][C37_Step]_vars

\* A restored count at the threshold, and the ban its next failure fired.
C37_Witness ==
    /\ last.op = "RecordFailure"
    /\ last.ip \notin DOMAIN m.failureCounts
    /\ last.ip \in DOMAIN m.bannedIPs
    /\ m.bannedFailCount[last.ip] > m.maxFailures

\* C38: persistence writes never regress the file: every write that
\* completes carries the records of the manager as it is at that moment, so
\* that once every spawned saveToFile and the one of Stop have returned, the
\* banned IPs of the file (those a load of the file would restore) are the
\* non-expired bans in memory.
C38_Live(expiry) == now < expiry

C38_FileBans == {file[i].ip : i \in {j \in 1..Len(file) : C38_Live(file[j].expiresAt)}}

C38_MemoryBans == {ip \in DOMAIN m.bannedIPs : C38_Live(m.bannedIPs[ip])}

C38_WritesFinished ==
    /\ saves = 0
    /\ \A s \in Savers : life[s] = "idle"
    /\ life.phase # "Stop"

C38_WriteStep ==
    file' # file => \E t \in 0..now' : file' \in saveToFile(m', t)

C39_InWindow(r) == r.timestamp > now - cb.windowSize

C39_Step ==
    /\ (cb.state # StateClosed /\ cb'.state = StateClosed)
           => cb'.requests = Append(SelectSeq(cb.requests, C39_InWindow),
                                    requestRecord(now, TRUE))
    /\ (cb.state = StateClosed /\ cb.lastStateChange > 0 /\ cb'.state = StateOpen)
           => /\ cb'.requests = Append(SelectSeq(cb.requests, C39_InWindow),
                                       requestRecord(now, FALSE))
              /\ Len(cb'.requests) >= cb.minRequests
              /\ CountFailures(cb'.requests) * 100
                     >= cb.failureThreshold * Len(cb'.requests)

C39_WindowSurvivesClose == [][C39_Step]_vars

\* The breaker re-opened on the first request after its recovery: the window
\* held the three half-open successes, the last of them the one that closed
\* it, and one failure (fewer than min_requests) opened it again.
C39_Witness ==
    /\ obs.op = "RecordFailure"
    /\ obs.pre.state = StateClosed
    /\ obs.pre.lastStateChange > 0
    /\ Len(obs.pre.requests) = halfOpenMaxRequests
    /\ \A i \in 1..Len(obs.pre.requests) : obs.pre.requests[i].success
    /\ obs.pre.requests[Len(obs.pre.requests)].timestamp = obs.pre.lastStateChange
    /\ cb.state = StateOpen
    /\ Len(cb.requests) = halfOpenMaxRequests + 1
    /\ cb.minRequests > 1

\* C40: with authentication disabled no connection of either frontend calls
\* RecordAuthFailure or RecordAuthSuccess on the ban tracker or on the
\* breaker, so the breaker stays Closed with an empty window and no IP is
\* banned or counted, whatever traffic arrives.
C40_RecordCalls ==
    {"ipBan.RecordAuthFailure", "ipBan.RecordAuthSuccess",
     "circuitBreaker.RecordAuthFailure", "circuitBreaker.RecordAuthSuccess"}

C40_AuthOffNoRecords ==
    ~mw.auth.enabled
    => /\ \A c \in 1..MaxConns :
             /\ conns[c].pc \notin {"subneg", "fail_ban", "fail_cb", "ok_ban", "ok_cb"}
             /\ \A i \in 1..Len(conns[c].trace) :
                   conns[c].trace[i].ev \notin C40_RecordCalls
       /\ cb.state = StateClosed
       /\ cb.requests = << >>
       /\ ~CircuitBreakerMiddleware_IsOpen(mw, cb, now)
       /\ DOMAIN m.bannedIPs = {}
       /\ DOMAIN m.failureCounts = {}
       /\ \A ip \in ClientIPs : ~IPBanMiddleware_IsBlocked(mw, m, ip, now)

\* Authentication is off and both frontends have served a client up to the
\* relay: an HTTP request that carried no usable credentials, and a SOCKS5
\* client that offered the method "no authentication".
C40_Witness ==
    /\ ~mw.auth.enabled
    /\ mw.ipBanEnabled /\ mw.breakerEnabled
    /\ \E c, d \in 1..MaxConns :
          /\ conns[c].proto = "http" /\ conns[c].pc = "relay"
          /\ HTTPAuthPasses(NewAuthMiddleware(TRUE, mw.auth.credentials), conns[c].creds) = FALSE
          /\ conns[d].proto = "socks5" /\ conns[d].pc = "relay"


====
